---------------------------- MODULE Spec2Model ----------------------------
(***************************************************************************)
(* A model of the small-language compiler: the AST (ast.ts), the frame     *)
(* analysis (function_frame.ts), the two assembly generators (codegen.ts,  *)
(* name-table and frame-map variants) and the parser driver (parser.ts).   *)
(***************************************************************************)
EXTENDS Integers, Sequences, FiniteSets

VARIABLES
    ast,          \* frame analysis: the Module handed to analyzeFrames
    results,      \* frame analysis: the outcome of every analyzeFrames call so far
    asm,          \* assembly generation: the unit compiled, the generator, the stage
    labelCounter, \* assembly generation: Label.#counter, static of the process
    cmp,          \* AST equality: the two trees compared and the verdict of equals
    parsing       \* parsing: the parser object, the input string and the outcome

vars == <<ast, results, asm, labelCounter, cmp, parsing>>

---------------------------------------------------------------------------
(* Bounds of the model.                                                    *)

\* Longest function body (statements) of an analysed function.
MaxStmts == 3
\* Number of times analyzeFrames is run on the same AST.
MaxRuns == 2
\* Largest parameter count of a compiled function.
MaxArity == 5
\* Largest argument count of a compiled call.
MaxArgs == 5
\* Longest body (statements) of a compiled function.
MaxAsmStmts == 2
\* Number of lexemes appended to the head of a parsed input.
MaxTail == 2
\* Number of pieces of a string that a regular expression is matched on.
MaxPieces == 3
\* Number of binary operators of a parsed chain.
MaxOperators == 2
\* Longest body (statements) of the function f of a compilation unit.
MaxUnitStmts == 2
\* Number of times one process compiles the same module.
MaxCompilations == 2
\* Largest absolute value of an argument of an evaluated function.
MaxValue == 2
\* Largest number of gaps of a source that hold whitespace or a comment.
MaxTrivia == 2
\* Largest number of items that a loop of the parser collects
MaxItems == 2

---------------------------------------------------------------------------
(* Generic helpers.                                                        *)

\* Map.set(k, v) on a Map modelled as a function.
Put(m, k, v) == [x \in (DOMAIN m) \cup {k} |-> IF x = k THEN v ELSE m[x]]

\* new Map()
EmptyMap == [x \in {} |-> 0]

\* Sequences over S of length 0..n.
SeqsUpTo(S, n) == UNION {[1..k -> S] : k \in 0..n}

RECURSIVE SumSeq(_)
SumSeq(s) == IF s = <<>> THEN 0 ELSE Head(s) + SumSeq(Tail(s))

RECURSIVE Flatten(_)
Flatten(ss) == IF ss = <<>> THEN <<>> ELSE Head(ss) \o Flatten(Tail(ss))

---------------------------------------------------------------------------
(* ast.ts: the node classes.  A node is a record; ref is the identity of   *)
(* the object (what a Map keyed by the node, or ===, distinguishes).       *)

Node(kind, name, value, params, kids) ==
    [kind |-> kind, name |-> name, value |-> value, params |-> params,
     kids |-> kids, ref |-> 0]

Number(value)        == Node("Number", "", value, <<>>, <<>>)
Id(value)            == Node("Id", value, 0, <<>>, <<>>)
Not(term)            == Node("Not", "", 0, <<>>, <<term>>)
Equal(left, right)   == Node("Equal", "", 0, <<>>, <<left, right>>)
NotEqual(left, right) == Node("NotEqual", "", 0, <<>>, <<left, right>>)
Add(left, right)     == Node("Add", "", 0, <<>>, <<left, right>>)
Subtract(left, right) == Node("Subtract", "", 0, <<>>, <<left, right>>)
Multiply(left, right) == Node("Multiply", "", 0, <<>>, <<left, right>>)
Divide(left, right)  == Node("Divide", "", 0, <<>>, <<left, right>>)
Call(callee, args)   == Node("Call", callee, 0, <<>>, args)
Return(term)         == Node("Return", "", 0, <<>>, <<term>>)
Block(statements)    == Node("Block", "", 0, <<>>, statements)
If(conditional, consequence, alternative) ==
    Node("If", "", 0, <<>>, <<conditional, consequence, alternative>>)
Function(name, parameters, body) == Node("Function", name, 0, parameters, <<body>>)
Var(name, value)     == Node("Var", name, 0, <<>>, <<value>>)
Assign(name, value)  == Node("Assign", name, 0, <<>>, <<value>>)
While(conditional, body) == Node("While", "", 0, <<>>, <<conditional, body>>)
Module(functions)    == Node("Module", "", 0, <<>>, functions)

BinOpKinds == {"Equal", "NotEqual", "Add", "Subtract", "Multiply", "Divide"}

\* Number of nodes of a tree.
RECURSIVE Size(_)
Size(t) == 1 + SumSeq([i \in 1..Len(t.kids) |-> Size(t.kids[i])])

\* The tree t as built by `new`: every node is a fresh object.  Identities
\* are handed out from base + 1 on, in AST pre-order (a node before its
\* children, children left to right in constructor-argument order).
RECURSIVE New(_, _)
New(t, base) ==
    LET n == Len(t.kids)
        start(i) == base + 1 + SumSeq([j \in 1..(i - 1) |-> Size(t.kids[j])])
    IN  [t EXCEPT !.ref = base + 1,
                  !.kids = [i \in 1..n |-> New(t.kids[i], start(i))]]

\* a.equals(b), per class; `other instanceof X` is the test on kind.
RECURSIVE equals(_, _)

\* Number.equals, Id.equals
equalsLeaf(this, other) ==
    other.kind = this.kind /\ this.value = other.value /\ this.name = other.name

\* Not, Equal .. Divide, Return, If, While: the children pairwise by equals
equalsChildren(this, other) ==
    /\ other.kind = this.kind
    /\ \A i \in 1..Len(this.kids) : equals(this.kids[i], other.kids[i])

\* Call.equals: args.every((arg, i) => arg === other.args[i])
equalsCall(this, other) ==
    /\ other.kind = "Call"
    /\ this.name = other.name
    /\ Len(this.kids) = Len(other.kids)
    /\ \A i \in 1..Len(this.kids) : this.kids[i].ref = other.kids[i].ref

\* Block.equals, Module.equals
equalsList(this, other) ==
    /\ other.kind = this.kind
    /\ Len(this.kids) = Len(other.kids)
    /\ \A i \in 1..Len(this.kids) : equals(this.kids[i], other.kids[i])

equalsFunction(this, other) ==
    /\ other.kind = "Function"
    /\ this.name = other.name
    /\ Len(this.params) = Len(other.params)
    /\ \A i \in 1..Len(this.params) : this.params[i] = other.params[i]
    /\ equals(this.kids[1], other.kids[1])

\* Var.equals, Assign.equals
equalsNamed(this, other) ==
    /\ other.kind = this.kind
    /\ this.name = other.name
    /\ equals(this.kids[1], other.kids[1])

equals(this, other) ==
    CASE this.kind \in {"Number", "Id"}     -> equalsLeaf(this, other)
      [] this.kind = "Call"                 -> equalsCall(this, other)
      [] this.kind \in {"Block", "Module"}  -> equalsList(this, other)
      [] this.kind = "Function"             -> equalsFunction(this, other)
      [] this.kind \in {"Var", "Assign"}    -> equalsNamed(this, other)
      [] OTHER                              -> equalsChildren(this, other)

---------------------------------------------------------------------------
(* Exceptions: a thrown Error is carried in the state as a record; every    *)
(* operation is skipped once an error has been thrown (the throw unwinds    *)
(* to the caller of the entry point).                                       *)

NoError == [kind |-> "none", name |-> ""]
Error(kind, name) == [kind |-> kind, name |-> name]

---------------------------------------------------------------------------
(* function_frame.ts: FunctionFrame.                                       *)

\* new FunctionFrame(): idMap and #nameMap empty, frameSize 0.
NewFunctionFrame ==
    [idMap |-> EmptyMap, nameMap |-> EmptyMap, frameSize |-> 0, thrown |-> NoError]

\* Faulty variant of addArgument: the duplicate check is missing.
addArgumentUnchecked(frame, name) ==
    [frame EXCEPT !.frameSize = frame.frameSize + 1,
                  !.nameMap = Put(frame.nameMap, name, frame.frameSize)]

addArgument(frame, name) ==
    IF name \in DOMAIN frame.nameMap
    THEN [frame EXCEPT !.thrown = Error("Duplicate definition of argument", name)]
    ELSE [frame EXCEPT !.frameSize = frame.frameSize + 1,
                       !.nameMap = Put(frame.nameMap, name, frame.frameSize)]

\* Faulty variant of addLocal: a name that is already bound keeps its slot.
addLocalReusing(frame, v) ==
    IF v.name \in DOMAIN frame.nameMap
    THEN [frame EXCEPT !.idMap = Put(frame.idMap, v.ref, frame.nameMap[v.name])]
    ELSE [frame EXCEPT !.frameSize = frame.frameSize + 1,
                       !.nameMap = Put(frame.nameMap, v.name, frame.frameSize),
                       !.idMap = Put(frame.idMap, v.ref, frame.frameSize)]

addLocal(frame, v) ==
    [frame EXCEPT !.frameSize = frame.frameSize + 1,
                  !.nameMap = Put(frame.nameMap, v.name, frame.frameSize),
                  !.idMap = Put(frame.idMap, v.ref, frame.frameSize)]

\* Faulty variant of mapLocal: an unbound name is left unmapped instead of thrown.
mapLocalSilent(frame, v) ==
    IF v.name \notin DOMAIN frame.nameMap
    THEN frame
    ELSE [frame EXCEPT !.idMap = Put(frame.idMap, v.ref, frame.nameMap[v.name])]

mapLocal(frame, v) ==
    IF v.name \notin DOMAIN frame.nameMap
    THEN [frame EXCEPT !.thrown = Error("Undefined variable", v.name)]
    ELSE [frame EXCEPT !.idMap = Put(frame.idMap, v.ref, frame.nameMap[v.name])]

\* getOffset: idMap.get(node); defined is FALSE when the Map has no entry
\* for the node (the result is undefined).
getOffset(frame, node) ==
    IF node.ref \in DOMAIN frame.idMap
    THEN [defined |-> TRUE, value |-> frame.idMap[node.ref]]
    ELSE [defined |-> FALSE, value |-> 0]

---------------------------------------------------------------------------
(* function_frame.ts: FunctionFrameAnalysis, the visitor.  The analysis    *)
(* object is [functionFrames, currentFrame, error].                        *)

\* Faulty variant of NewFunctionFrameAnalysis: functionFrames is shared by all
\* analyses (a static field), so it still holds what the last run returned.
SharedFunctionFrameAnalysis ==
    [functionFrames |-> IF results = <<>> THEN EmptyMap
                        ELSE results[Len(results)].frames,
     currentFrame |-> NewFunctionFrame, error |-> NoError]

\* new FunctionFrameAnalysis()
NewFunctionFrameAnalysis ==
    [functionFrames |-> EmptyMap, currentFrame |-> NewFunctionFrame, error |-> NoError]

\* A FunctionFrame method applied to #currentFrame; its throw becomes the
\* analysis' error.
OnFrame(a, frame) ==
    IF frame.thrown # NoError
    THEN [a EXCEPT !.error = frame.thrown]
    ELSE [a EXCEPT !.currentFrame = frame]

RECURSIVE visit(_, _)
RECURSIVE forEach(_, _, _)

\* nodes.forEach(n => n.visit(this)), from index i on.
forEach(a, nodes, i) ==
    IF i > Len(nodes) THEN a ELSE forEach(visit(a, nodes[i]), nodes, i + 1)

visitNumber(a, node) == a

visitId(a, node) == OnFrame(a, mapLocal(a.currentFrame, node))

visitNot(a, node) == visit(a, node.kids[1])

visitBinOp(a, node) == visit(visit(a, node.kids[1]), node.kids[2])

visitCall(a, node) == forEach(a, node.kids, 1)

visitReturn(a, node) == visit(a, node.kids[1])

\* Faulty variant of visitBlock: block scoping, the bindings in force before the
\* block are restored when it ends.
visitBlockScoped(a, node) ==
    LET b == forEach(a, node.kids, 1)
    IN  IF b.error # NoError THEN b
        ELSE [b EXCEPT !.currentFrame =
                 [b.currentFrame EXCEPT !.nameMap = a.currentFrame.nameMap]]

visitBlock(a, node) == forEach(a, node.kids, 1)

\* conditional, then alternative, then consequence
visitIf(a, node) ==
    visit(visit(visit(a, node.kids[1]), node.kids[3]), node.kids[2])

RECURSIVE addArguments(_, _, _)
addArguments(a, parameters, i) ==
    IF i > Len(parameters) \/ a.error # NoError THEN a
    ELSE addArguments(OnFrame(a, addArgument(a.currentFrame, parameters[i])),
                      parameters, i + 1)

visitFunction(a, node) ==
    IF node.name \in DOMAIN a.functionFrames
    THEN [a EXCEPT !.error = Error("Redefinition of function", node.name)]
    ELSE LET fresh == [a EXCEPT !.currentFrame = NewFunctionFrame]
             b == visit(addArguments(fresh, node.params, 1), node.kids[1])
         IN  IF b.error # NoError THEN b
             ELSE [b EXCEPT !.functionFrames =
                                Put(b.functionFrames, node.name, b.currentFrame),
                            !.currentFrame = NewFunctionFrame]

visitVar(a, node) ==
    LET b == visit(a, node.kids[1])
    IN  IF b.error # NoError THEN b ELSE OnFrame(b, addLocal(b.currentFrame, node))

\* Faulty variant of visitAssign: the assigned name is not resolved.
visitAssignUnresolved(a, node) == visit(a, node.kids[1])

visitAssign(a, node) ==
    LET b == visit(a, node.kids[1])
    IN  IF b.error # NoError THEN b ELSE OnFrame(b, mapLocal(b.currentFrame, node))

visitWhile(a, node) == visit(visit(a, node.kids[1]), node.kids[2])

visitModule(a, node) == forEach(a, node.kids, 1)

\* node.visit(v): the double dispatch of ast.ts.
visit(a, node) ==
    IF a.error # NoError THEN a
    ELSE CASE node.kind = "Number"   -> visitNumber(a, node)
           [] node.kind = "Id"       -> visitId(a, node)
           [] node.kind = "Not"      -> visitNot(a, node)
           [] node.kind \in BinOpKinds -> visitBinOp(a, node)
           [] node.kind = "Call"     -> visitCall(a, node)
           [] node.kind = "Return"   -> visitReturn(a, node)
           [] node.kind = "Block"    -> visitBlock(a, node)
           [] node.kind = "If"       -> visitIf(a, node)
           [] node.kind = "Function" -> visitFunction(a, node)
           [] node.kind = "Var"      -> visitVar(a, node)
           [] node.kind = "Assign"   -> visitAssign(a, node)
           [] node.kind = "While"    -> visitWhile(a, node)
           [] node.kind = "Module"   -> visitModule(a, node)

\* analyzeFrames(ast): the returned Map, or the Error thrown.
analyzeFrames(tree) ==
    LET analysis == visit(NewFunctionFrameAnalysis, tree)
    IN  IF analysis.error # NoError
        THEN [ok |-> FALSE, error |-> analysis.error, frames |-> EmptyMap]
        ELSE [ok |-> TRUE, error |-> NoError, frames |-> analysis.functionFrames]

---------------------------------------------------------------------------
(* codegen.ts: the assembly generators.  Two variants of CodeGenerator      *)
(* exist: the name-table one (codegen.ts: #locals maps a name to a frame-   *)
(* pointer offset) and the frame-map one (constructed with the result of    *)
(* analyzeFrames).  They share every method but visitId, visitVar,          *)
(* visitAssign, setupEnvironment, teardownEnvironment and emitPrologue.     *)
(*                                                                          *)
(* An emitted line is a record; op and the operands a, b, c, imm stand for  *)
(*   ldr=    ldr a, =imm              ldr     ldr a, [b, #imm]             *)
(*   str     str a, [b, #imm]         str!    str a, [b, #imm]!            *)
(*   ldr+    ldr a, [b], #imm         stp!    stp a, b, [c, #imm]!         *)
(*   ldp+    ldp a, b, [c], #imm      cmp#    cmp a, #imm                  *)
(*   cmp     cmp a, b                 cset    cset a, b                    *)
(*   add/sub/mul/div   op a, b, c     sub#    sub a, b, #imm               *)
(*   mov     mov a, b                 mov#    mov a, #imm                  *)
(*   bl      bl _a                    b/bne   b .Limm                      *)
(*   label   .Limm:                   ret     ret                          *)
(*   .section / .globl _a / .p2align / _a: (entry) / "" (empty line)       *)
(* nan marks an immediate that the template printed from a non-number.     *)

Line(op, a, b, c, imm) ==
    [op |-> op, a |-> a, b |-> b, c |-> c, imm |-> imm, nan |-> FALSE]

\* The ceiling that visitFunction enforces on the parameter count.
MaxParameters == 4
\* Bytes that visitCall reserves for the arguments of a call.
ArgumentArea == 32

\* new CodeGenerator(...): the generator object; counter is Label.#counter,
\* the static that every Label of the process is numbered from.
NewCodeGenerator(variant, frameInfos, counter) ==
    [variant |-> variant, frameInfos |-> frameInfos,
     locals |-> EmptyMap, nextLocalOffset |-> 0,
     currentFrameInfo |-> NewFunctionFrame,
     exitLabel |-> -1, out |-> <<>>, error |-> NoError, counter |-> counter]

\* console.log(line); nothing runs, and nothing is emitted, after a throw.
emit(g, line) == IF g.error # NoError THEN g ELSE [g EXCEPT !.out = Append(g.out, line)]

RECURSIVE emitAll(_, _)
emitAll(g, lines) ==
    IF lines = <<>> THEN g ELSE emitAll(emit(g, Head(lines)), Tail(lines))

\* new Label(): the label's number is Label.#counter++.
newLabel(g) == [g EXCEPT !.counter = g.counter + 1]

RECURSIVE genVisit(_, _)
RECURSIVE genForEach(_, _, _)
RECURSIVE genArgs(_, _, _)

genForEach(g, nodes, i) ==
    IF i > Len(nodes) THEN g ELSE genForEach(genVisit(g, nodes[i]), nodes, i + 1)

genVisitNumber(g, node) == emit(g, Line("ldr=", "x0", "", "", node.value))

\* codegen.ts (name-table): if (offset) ... else throw
ntVisitId(g, node) ==
    IF node.name \in DOMAIN g.locals /\ g.locals[node.name] # 0
    THEN emit(g, Line("ldr", "x0", "x29", "", g.locals[node.name]))
    ELSE [g EXCEPT !.error = Error("Undefined variable", node.name)]

\* The operand #${-offset * 8} of the frame-map generator.
SlotOperand(line, offset) ==
    IF offset.defined THEN [line EXCEPT !.imm = -(offset.value * 8)]
    ELSE [line EXCEPT !.nan = TRUE]

\* frame-map: getOffset(node)!, no check
fmVisitId(g, node) ==
    emit(g, SlotOperand(Line("ldr", "x0", "x29", "", 0),
                        getOffset(g.currentFrameInfo, node)))

genVisitId(g, node) ==
    IF g.variant = "nameTable" THEN ntVisitId(g, node) ELSE fmVisitId(g, node)

\* Faulty variant of genVisitNot: the operand is compared with 0.
genVisitNotOfZero(g, node) ==
    emitAll(genVisit(g, node.kids[1]),
            << Line("cmp#", "x0", "", "", 0), Line("cset", "x0", "eq", "", 0) >>)

genVisitNot(g, node) ==
    emitAll(genVisit(g, node.kids[1]),
            << Line("cmp#", "x0", "", "", 1), Line("cset", "x0", "ne", "", 0) >>)

prepareBinaryOp(g, node) ==
    LET l == emit(genVisit(g, node.kids[1]), Line("str!", "x0", "sp", "", -16))
    IN  emit(genVisit(l, node.kids[2]), Line("ldr+", "x1", "sp", "", 16))

genVisitEqual(g, node) ==
    emitAll(prepareBinaryOp(g, node),
            << Line("cmp", "x1", "x0", "", 0), Line("cset", "x0", "eq", "", 0) >>)

genVisitNotEqual(g, node) ==
    emitAll(prepareBinaryOp(g, node),
            << Line("cmp", "x1", "x0", "", 0), Line("cset", "x0", "ne", "", 0) >>)

genVisitAdd(g, node) == emit(prepareBinaryOp(g, node), Line("add", "x0", "x1", "x0", 0))
genVisitSubtract(g, node) == emit(prepareBinaryOp(g, node), Line("sub", "x0", "x1", "x0", 0))
genVisitMultiply(g, node) == emit(prepareBinaryOp(g, node), Line("mul", "x0", "x1", "x0", 0))
genVisitDivide(g, node) == emit(prepareBinaryOp(g, node), Line("div", "x0", "x1", "x0", 0))

\* args.forEach((arg, i) => { arg.visit(this); emit(str x0, [sp, #8 * i]) }),
\* i counted from 0 in the source, from 1 here.
genArgs(g, args, i) ==
    IF i > Len(args) THEN g
    ELSE genArgs(emit(genVisit(g, args[i]), Line("str", "x0", "sp", "", 8 * (i - 1))),
                 args, i + 1)

genVisitCall(g, node) ==
    LET args == IF Len(node.kids) > 1
                THEN emitAll(genArgs(emit(g, Line("sub#", "sp", "sp", "", ArgumentArea)),
                                     node.kids, 1),
                             << Line("ldp+", "x0", "x1", "sp", 16),
                                Line("ldp+", "x2", "x3", "sp", 16) >>)
                ELSE genForEach(g, node.kids, 1)
    IN  emit(args, Line("bl", node.name, "", "", 0))

\* Faulty variant of genVisitReturn: the Return restores the stack and
\* returns on the spot.
genVisitReturnInPlace(g, node) ==
    emitAll(genVisit(g, node.kids[1]),
            << Line("mov", "sp", "x29", "", 0),
               Line("ldp+", "x29", "x30", "sp", 16),
               Line("ret", "", "", "", 0) >>)

genVisitReturn(g, node) ==
    LET t == genVisit(g, node.kids[1]) IN emit(t, Line("b", "", "", "", t.exitLabel))

genVisitBlock(g, node) == genForEach(g, node.kids, 1)

genVisitIf(g, node) ==
    LET ifFalseLabel == g.counter
        endIfLabel == g.counter + 1
        c == emitAll(genVisit(newLabel(newLabel(g)), node.kids[1]),
                     << Line("cmp#", "x0", "", "", 1),
                        Line("bne", "", "", "", ifFalseLabel) >>)
        t == emitAll(genVisit(c, node.kids[2]),
                     << Line("b", "", "", "", endIfLabel),
                        Line("label", "", "", "", ifFalseLabel) >>)
    IN  emit(genVisit(t, node.kids[3]), Line("label", "", "", "", endIfLabel))

RECURSIVE ntParameters(_, _, _)
ntParameters(locals, parameters, i) ==
    IF i > Len(parameters) THEN locals
    ELSE ntParameters(Put(locals, parameters[i], 8 * (i - 1) - 32), parameters, i + 1)

ntSetupEnvironment(g, node) ==
    newLabel([g EXCEPT !.locals = ntParameters(EmptyMap, node.params, 1),
                       !.nextLocalOffset = -40,
                       !.exitLabel = g.counter])

\* this.frameInfos.get(node.name)!
fmSetupEnvironment(g, node) ==
    newLabel([g EXCEPT !.currentFrameInfo = g.frameInfos[node.name],
                       !.exitLabel = g.counter])

setupEnvironment(g, node) ==
    IF g.variant = "nameTable" THEN ntSetupEnvironment(g, node)
    ELSE fmSetupEnvironment(g, node)

teardownEnvironment(g) ==
    [g EXCEPT !.locals = EmptyMap, !.nextLocalOffset = 0,
              !.currentFrameInfo = NewFunctionFrame, !.exitLabel = -1]

ntEmitPrologue(g) ==
    emitAll(g, << Line("stp!", "x29", "x30", "sp", -16),
                  Line("mov", "x29", "sp", "", 0),
                  Line("stp!", "x2", "x3", "sp", -16),
                  Line("stp!", "x0", "x1", "sp", -16) >>)

XReg(i) == CASE i = 0 -> "x0" [] i = 1 -> "x1" [] i = 2 -> "x2" [] i = 3 -> "x3"
             [] i = 4 -> "x4" [] i = 5 -> "x5" [] i = 6 -> "x6" [] i = 7 -> "x7"
             [] OTHER -> "x8"

\* The while (remainingArgs > 0) loop of emitPrologue.
RECURSIVE fmSaveArguments(_, _, _, _)
fmSaveArguments(g, argIndex, remainingArgs, frameSize) ==
    IF remainingArgs <= 0 THEN g
    ELSE IF remainingArgs > 2
    THEN fmSaveArguments(emit(g, Line("stp!", XReg(argIndex + 1), XReg(argIndex), "sp", -16)),
                         argIndex + 2, remainingArgs - 2, frameSize - 16)
    ELSE IF remainingArgs = 2
    THEN fmSaveArguments(emit(g, Line("stp!", XReg(argIndex + 1), XReg(argIndex), "sp",
                                      -frameSize)),
                         argIndex, remainingArgs - 2, frameSize)
    ELSE fmSaveArguments(emit(g, Line("str!", XReg(argIndex), "sp", "", -frameSize)),
                         argIndex, remainingArgs - 1, frameSize)

\* Math.ceil(n / 2)
CeilHalf(n) == (n + 1) \div 2

\* Faulty variant of fmEmitPrologue: the frame size is rounded down.
fmEmitPrologueRoundedDown(g, node) ==
    LET h == emitAll(g, << Line("stp!", "x29", "x30", "sp", -16),
                           Line("mov", "x29", "sp", "", 0) >>)
        frameSize == (g.currentFrameInfo.frameSize \div 2) * 16
    IN  IF Len(node.params) > 8
        THEN [h EXCEPT !.error = Error("Maximum 8 arguments are supported", node.name)]
        ELSE IF Len(node.params) = 0 /\ frameSize > 0
        THEN emit(h, Line("sub#", "sp", "sp", "", frameSize))
        ELSE fmSaveArguments(h, 0, Len(node.params), frameSize)

fmEmitPrologue(g, node) ==
    LET h == emitAll(g, << Line("stp!", "x29", "x30", "sp", -16),
                           Line("mov", "x29", "sp", "", 0) >>)
        frameSize == CeilHalf(g.currentFrameInfo.frameSize) * 16
    IN  IF Len(node.params) > 8
        THEN [h EXCEPT !.error = Error("Maximum 8 arguments are supported", node.name)]
        ELSE IF Len(node.params) = 0 /\ frameSize > 0
        THEN emit(h, Line("sub#", "sp", "sp", "", frameSize))
        ELSE fmSaveArguments(h, 0, Len(node.params), frameSize)

emitPrologue(g, node) ==
    IF g.variant = "nameTable" THEN ntEmitPrologue(g) ELSE fmEmitPrologue(g, node)

emitEpilogue(g) ==
    emitAll(g, << Line("mov#", "x0", "", "", 0),
                  Line("label", "", "", "", g.exitLabel),
                  Line("mov", "sp", "x29", "", 0),
                  Line("ldp+", "x29", "x30", "sp", 16),
                  Line("ret", "", "", "", 0) >>)

\* Faulty variant of genVisitFunction: the arity check is off by one.
genVisitFunctionOffByOne(g, node) ==
    IF Len(node.params) > MaxParameters + 1
    THEN [g EXCEPT !.error = Error("More than 4 params is not supported", node.name)]
    ELSE LET env == setupEnvironment(g, node)
             head == emitAll(env, << Line(".globl", node.name, "", "", 0),
                                     Line(".p2align", "", "", "", 2),
                                     Line("entry", node.name, "", "", 0) >>)
             pro == emitPrologue(head, node)
             body == IF pro.error # NoError THEN pro ELSE genVisit(pro, node.kids[1])
         IN  IF body.error # NoError THEN body
             ELSE teardownEnvironment(emitEpilogue(body))

genVisitFunction(g, node) ==
    IF Len(node.params) > MaxParameters
    THEN [g EXCEPT !.error = Error("More than 4 params is not supported", node.name)]
    ELSE LET env == setupEnvironment(g, node)
             head == emitAll(env, << Line(".globl", node.name, "", "", 0),
                                     Line(".p2align", "", "", "", 2),
                                     Line("entry", node.name, "", "", 0) >>)
             pro == emitPrologue(head, node)
             body == IF pro.error # NoError THEN pro ELSE genVisit(pro, node.kids[1])
         IN  IF body.error # NoError THEN body
             ELSE teardownEnvironment(emitEpilogue(body))

ntVisitVar(g, node) ==
    LET v == emit(genVisit(g, node.kids[1]), Line("str!", "x0", "sp", "", -16))
    IN  [v EXCEPT !.locals = Put(v.locals, node.name, v.nextLocalOffset - 8),
                  !.nextLocalOffset = v.nextLocalOffset - 16]

fmVisitVar(g, node) ==
    LET v == genVisit(g, node.kids[1])
    IN  emit(v, SlotOperand(Line("str", "x0", "x29", "", 0),
                            getOffset(v.currentFrameInfo, node)))

genVisitVar(g, node) ==
    IF g.variant = "nameTable" THEN ntVisitVar(g, node) ELSE fmVisitVar(g, node)

ntVisitAssign(g, node) ==
    LET v == genVisit(g, node.kids[1])
    IN  IF v.error # NoError THEN v
        ELSE IF node.name \in DOMAIN v.locals /\ v.locals[node.name] # 0
        THEN emit(v, Line("str", "x0", "x29", "", v.locals[node.name]))
        ELSE [v EXCEPT !.error = Error("Undefined variable", node.name)]

fmVisitAssign(g, node) ==
    LET v == genVisit(g, node.kids[1])
    IN  emit(v, SlotOperand(Line("str", "x0", "x29", "", 0),
                            getOffset(v.currentFrameInfo, node)))

genVisitAssign(g, node) ==
    IF g.variant = "nameTable" THEN ntVisitAssign(g, node) ELSE fmVisitAssign(g, node)

\* Faulty variant of genVisitWhile: no branch back to the condition.
genVisitWhileOnce(g, node) ==
    LET startLoopLabel == g.counter
        endLoopLabel == g.counter + 1
        s0 == emit(newLabel(newLabel(g)), Line("label", "", "", "", startLoopLabel))
        c == emitAll(genVisit(s0, node.kids[1]),
                     << Line("cmp#", "x0", "", "", 1),
                        Line("bne", "", "", "", endLoopLabel) >>)
    IN  emit(genVisit(c, node.kids[2]), Line("label", "", "", "", endLoopLabel))

genVisitWhile(g, node) ==
    LET startLoopLabel == g.counter
        endLoopLabel == g.counter + 1
        s0 == emit(newLabel(newLabel(g)), Line("label", "", "", "", startLoopLabel))
        c == emitAll(genVisit(s0, node.kids[1]),
                     << Line("cmp#", "x0", "", "", 1),
                        Line("bne", "", "", "", endLoopLabel) >>)
    IN  emitAll(genVisit(c, node.kids[2]),
                << Line("b", "", "", "", startLoopLabel),
                   Line("label", "", "", "", endLoopLabel) >>)

RECURSIVE genFunctions(_, _, _)
genFunctions(g, functions, i) ==
    IF i > Len(functions) THEN g
    ELSE genFunctions(genVisit(emit(g, Line("", "", "", "", 0)), functions[i]),
                      functions, i + 1)

genVisitModule(g, node) ==
    genFunctions(emit(g, Line(".section", "__TEXT,__text,regular,pure_instructions",
                              "", "", 0)),
                 node.kids, 1)

\* node.visit(generator).  A thrown error unwinds: nothing is visited and
\* nothing is emitted after it.
genVisit(g, node) ==
    IF g.error # NoError THEN g
    ELSE LET r == CASE node.kind = "Number"   -> genVisitNumber(g, node)
                    [] node.kind = "Id"       -> genVisitId(g, node)
                    [] node.kind = "Not"      -> genVisitNot(g, node)
                    [] node.kind = "Equal"    -> genVisitEqual(g, node)
                    [] node.kind = "NotEqual" -> genVisitNotEqual(g, node)
                    [] node.kind = "Add"      -> genVisitAdd(g, node)
                    [] node.kind = "Subtract" -> genVisitSubtract(g, node)
                    [] node.kind = "Multiply" -> genVisitMultiply(g, node)
                    [] node.kind = "Divide"   -> genVisitDivide(g, node)
                    [] node.kind = "Call"     -> genVisitCall(g, node)
                    [] node.kind = "Return"   -> genVisitReturn(g, node)
                    [] node.kind = "Block"    -> genVisitBlock(g, node)
                    [] node.kind = "If"       -> genVisitIf(g, node)
                    [] node.kind = "Function" -> genVisitFunction(g, node)
                    [] node.kind = "Var"      -> genVisitVar(g, node)
                    [] node.kind = "Assign"   -> genVisitAssign(g, node)
                    [] node.kind = "While"    -> genVisitWhile(g, node)
                    [] node.kind = "Module"   -> genVisitModule(g, node)
         IN  r

---------------------------------------------------------------------------
(* The programs handed to the frame analysis: modules as the parser builds *)
(* them (every node a fresh object), over the names x and y.               *)

\* Statements of the analysed function bodies: declarations, assignments,
\* uses, and the nested constructs of the sample program (main.ts, f and g).
Statements ==
    { Var("x", Number(1)),
      Var("x", Id("x")),
      Var("y", Add(Id("x"), Number(1))),
      Assign("x", Id("y")),
      Assign("y", Number(1)),
      Call("print", <<Id("x")>>),
      Return(Not(Id("y"))),
      Block(<<Var("x", Number(2))>>),
      While(Number(0), Block(<<Var("x", Number(2))>>)),
      If(Id("x"), Block(<<Var("y", Number(1))>>), Block(<<Assign("y", Id("x"))>>)),
      If(Equal(Id("x"), Number(1)), Call("print", <<Id("x")>>), Var("x", Number(3))) }

ParameterLists == { <<>>, <<"x">>, <<"x", "y">>, <<"x", "x">> }

\* A second function of the module, or none: one of the same name as the
\* first, one that uses x without declaring it, one with its own x.
OtherFunctions ==
    { <<>>,
      <<Function("f", <<>>, Block(<<>>))>>,
      <<Function("g", <<>>, Block(<<Call("print", <<Id("x")>>)>>))>>,
      <<Function("g", <<"y">>, Block(<<Var("x", Id("y")), Assign("x", Id("x"))>>))>> }

\* One function with a body of up to n statements, or two functions the
\* first of which has at most one statement.
Modules(n) ==
    { New(Module(<<Function("f", ps, Block(body))>>), 0) :
        ps \in ParameterLists, body \in SeqsUpTo(Statements, n) }
    \cup
    { New(Module(<<Function("f", ps, Block(body))>> \o others), 0) :
        ps \in ParameterLists, body \in SeqsUpTo(Statements, 1),
        others \in OtherFunctions \ {<<>>} }

---------------------------------------------------------------------------
(* The frame-analysis specification: analyzeFrames is run on one AST, up   *)
(* to MaxRuns times (main.ts runs it once per compilation).                *)

\* The parts of the state that a specification does not use.
NoModule == Module(<<>>)
AsmIdle == [pc |-> "idle"]
FramesIdle == ast = NoModule /\ results = <<>>
CmpIdle == [pc |-> "idle"]
ParseIdle == [pc |-> "idle"]

InitFrames ==
    /\ ast \in Modules(MaxStmts)
    /\ results = <<>>
    /\ asm = AsmIdle
    /\ labelCounter = 0
    /\ cmp = CmpIdle
    /\ parsing = ParseIdle

AnalyzeFrames ==
    /\ Len(results) < MaxRuns
    /\ results' = Append(results, analyzeFrames(ast))
    /\ UNCHANGED <<ast, asm, labelCounter, cmp, parsing>>

NextFrames == AnalyzeFrames

SpecFrames == InitFrames /\ [][NextFrames]_vars

---------------------------------------------------------------------------
(* The assembly-generation specification: a module is compiled by one of    *)
(* the two generators, either whole (main: ast.visit(generator)) or its     *)
(* first function alone (generator.visitFunction).  The frame-map           *)
(* generator is built from the result of analyzeFrames, so nothing is       *)
(* compiled when the analysis throws.                                        *)

ParameterNames == <<"a", "b", "c", "d", "e", "f", "g", "h">>

\* k number literals: the arguments of a call.
Numbers(k) == [i \in 1..k |-> Number(i)]

\* Statements of a compiled function with n parameters.
AsmStatements(n) ==
    { Call("callee", Numbers(k)) : k \in 0..MaxArgs }
    \cup
    { Return(Number(7)),
      Var("v", Number(1)),
      Assign("v", Add(Id("v"), Number(1))),
      Call("print", <<Call("callee", Numbers(2))>>),
      If(Equal(Number(1), Number(1)), Block(<<Return(Number(1))>>),
         Block(<<Return(Number(2))>>)),
      While(NotEqual(Id("v"), Number(1)), Assign("v", Subtract(Id("v"), Number(1)))) }
    \cup
    (IF n >= 1 THEN { Return(Not(Id("a"))), Assign("a", Number(2)) } ELSE {})

\* The module of one function f with n parameters and the given body.
AsmUnit(n, body) ==
    New(Module(<<Function("f", SubSeq(ParameterNames, 1, n), Block(body))>>), 0)

InitAsm ==
    /\ FramesIdle
    /\ cmp = CmpIdle
    /\ parsing = ParseIdle
    /\ labelCounter = 0
    /\ \E variant \in {"nameTable", "frameMap"}, n \in 0..MaxArity :
          \E body \in SeqsUpTo(AsmStatements(n), MaxAsmStmts) :
             asm = [variant |-> variant, unit |-> AsmUnit(n, body), pc |-> "start",
                    gen |-> NewCodeGenerator(variant, EmptyMap, 0)]

\* The frame map the generator is constructed with.
FrameInfos == analyzeFrames(asm.unit)

\* main of the frame-map generator: analyzeFrames throws, no generator is built.
AnalysisThrows ==
    /\ asm.pc = "start"
    /\ asm.variant = "frameMap"
    /\ ~FrameInfos.ok
    /\ asm' = [asm EXCEPT !.pc = "failed", !.gen.error = FrameInfos.error]
    /\ UNCHANGED <<ast, results, labelCounter, cmp, parsing>>

Compile(node, pc) ==
    /\ asm.pc = "start"
    /\ asm.variant = "frameMap" => FrameInfos.ok
    /\ LET g == genVisit(NewCodeGenerator(asm.variant, FrameInfos.frames, labelCounter),
                         node)
       IN  /\ asm' = [asm EXCEPT !.pc = pc, !.gen = g]
           /\ labelCounter' = g.counter
    /\ UNCHANGED <<ast, results, cmp, parsing>>

\* ast.visit(new CodeGenerator(...))
CompileModule == Compile(asm.unit, "module")

\* generator.visitFunction(fn) for the first function of the unit
CompileFunction == Compile(asm.unit.kids[1], "function")

NextAsm == AnalysisThrows \/ CompileModule \/ CompileFunction

SpecAsm == InitAsm /\ [][NextAsm]_vars

---------------------------------------------------------------------------
(* What the claims about the frame analysis speak of, stated on the AST    *)
(* alone.                                                                   *)

\* The Id, Var and Assign nodes of a subtree in the order in which they take
\* effect: a Var binds, and an Assign resolves, after its value is evaluated.
\* ifOrder is the order of the three children of an If.
RECURSIVE Events(_, _)
Events(t, ifOrder) ==
    LET sub(i) == Events(t.kids[i], ifOrder)
    IN  CASE t.kind = "Id" -> <<t>>
          [] t.kind \in {"Var", "Assign"} -> sub(1) \o <<t>>
          [] t.kind = "If" -> sub(ifOrder[1]) \o sub(ifOrder[2]) \o sub(ifOrder[3])
          [] OTHER -> Flatten([i \in 1..Len(t.kids) |-> sub(i)])

\* AST pre-order: conditional, consequence, alternative.
PreOrder == <<1, 2, 3>>
\* The order of the analysis' walk (visitIf): conditional, alternative, consequence.
WalkOrder == <<1, 3, 2>>

\* Index (1-based) of name in a parameter list, 0 when absent.
ParamIndex(parameters, name) ==
    IF \E i \in 1..Len(parameters) : parameters[i] = name
    THEN CHOOSE i \in 1..Len(parameters) :
            parameters[i] = name /\ \A j \in 1..(i - 1) : parameters[j] # name
    ELSE 0

\* Position in ev of the Var of the same name that most recently precedes
\* position k, 0 when there is none.
LastDecl(ev, k) ==
    LET cands == {j \in 1..(k - 1) : ev[j].kind = "Var" /\ ev[j].name = ev[k].name}
    IN  IF cands = {} THEN 0 ELSE CHOOSE j \in cands : \A i \in cands : i <= j

IsUse(node) == node.kind \in {"Id", "Assign"}

\* The use at position k of ev is bound neither by a parameter of fn nor by
\* an earlier Var.
Unbound(fn, ev, k) ==
    /\ IsUse(ev[k])
    /\ ParamIndex(fn.params, ev[k].name) = 0
    /\ LastDecl(ev, k) = 0

\* Names used somewhere, in the order ifOrder, before anything binds them.
UnboundNames(tree, ifOrder) ==
    UNION { LET ev == Events(tree.kids[f], ifOrder)
            IN  {ev[k].name : k \in {i \in 1..Len(ev) : Unbound(tree.kids[f], ev, i)}}
            : f \in 1..Len(tree.kids) }

DuplicateFunctionNames(tree) ==
    {tree.kids[i].name : i \in {j \in 1..Len(tree.kids) :
                                   \E k \in 1..(j - 1) : tree.kids[k].name = tree.kids[j].name}}

DuplicateParameterNames(tree) ==
    UNION { {tree.kids[f].params[i] :
               i \in {j \in 1..Len(tree.kids[f].params) :
                        \E k \in 1..(j - 1) : tree.kids[f].params[k] = tree.kids[f].params[j]}}
            : f \in 1..Len(tree.kids) }

RECURSIVE CountKind(_, _)
CountKind(t, kind) ==
    (IF t.kind = kind THEN 1 ELSE 0)
    + SumSeq([i \in 1..Len(t.kids) |-> CountKind(t.kids[i], kind)])

\* The Var nodes that lie inside a nested Block or a While body of a function
\* body (not directly among the body's statements), each with the identity of
\* the last node of that nested construct.
RECURSIVE NestedVars(_, _, _)
NestedVars(t, depth, scopeEnd) ==
    LET inner == IF t.kind \in {"Block", "While"} THEN depth + 1 ELSE depth
        end   == IF t.kind \in {"Block", "While"} THEN t.ref + Size(t) - 1 ELSE scopeEnd
    IN  (IF t.kind = "Var" /\ depth >= 2
         THEN {[ref |-> t.ref, scopeEnd |-> scopeEnd]} ELSE {})
        \cup UNION {NestedVars(t.kids[i], inner, end) : i \in 1..Len(t.kids)}

\* The slot the analysis recorded for a node.
Slot(r, fn, node) == r.frames[fn.name].idMap[node.ref]

Runs == DOMAIN results
Functions == {ast.kids[f] : f \in 1..Len(ast.kids)}

\* The slot of what binds the use at position k of ev: the most recent Var
\* before it, else the parameter of that name, else -1 (nothing binds it).
BinderSlot(r, fn, ev, k) ==
    LET d == LastDecl(ev, k)
    IN  IF d # 0 THEN Slot(r, fn, ev[d]) ELSE ParamIndex(fn.params, ev[k].name) - 1

---------------------------------------------------------------------------
(* Claims about the frame analysis (SpecFrames).                           *)

C2_PreOrderResolution ==
    \A run \in Runs :
      /\ results[run].ok =>
           \A fn \in Functions :
             LET ev == Events(fn, PreOrder)
             IN  \A k \in 1..Len(ev) : IsUse(ev[k]) =>
                   Slot(results[run], fn, ev[k]) = BinderSlot(results[run], fn, ev, k)
      /\ ( /\ UnboundNames(ast, PreOrder) = {}
           /\ DuplicateFunctionNames(ast) = {}
           /\ DuplicateParameterNames(ast) = {} ) => results[run].ok

\* C3 (the claim as stated): a module with a use that nothing visited
\* earlier in its function binds makes analyzeFrames fail with 'Undefined
\* variable' naming such a name, and no frame map is returned.
C3_UndefinedVariableAlways ==
    \A run \in Runs : UnboundNames(ast, WalkOrder) # {} =>
      /\ ~results[run].ok
      /\ results[run].frames = EmptyMap
      /\ results[run].error.kind = "Undefined variable"
      /\ results[run].error.name \in UnboundNames(ast, WalkOrder)

\* C3 (amended): such a module always makes analyzeFrames fail and no frame
\* map is returned; the error is 'Undefined variable' naming such a name,
\* unless the module also holds a duplicate function or parameter name, in
\* which case the error may be the one of that duplicate.
C3_UndefinedVariableFails ==
    \A run \in Runs : UnboundNames(ast, WalkOrder) # {} =>
      /\ ~results[run].ok
      /\ results[run].frames = EmptyMap
      /\ \/ /\ results[run].error.kind = "Undefined variable"
            /\ results[run].error.name \in UnboundNames(ast, WalkOrder)
         \/ /\ results[run].error.kind = "Redefinition of function"
            /\ results[run].error.name \in DuplicateFunctionNames(ast)
         \/ /\ results[run].error.kind = "Duplicate definition of argument"
            /\ results[run].error.name \in DuplicateParameterNames(ast)
      /\ (DuplicateFunctionNames(ast) = {} /\ DuplicateParameterNames(ast) = {})
            => results[run].error.kind = "Undefined variable"

\* C3 witness: analyzeFrames has failed with 'Undefined variable' on a module
\* in which the name is bound in another function than the one that uses it.
C3_Witness ==
    \E run \in Runs :
      /\ results[run].error.kind = "Undefined variable"
      /\ \E f, g \in Functions :
            /\ f # g
            /\ results[run].error.name \in UnboundNames(Module(<<g>>), WalkOrder)
            /\ \E k \in 1..Len(Events(f, WalkOrder)) :
                  /\ Events(f, WalkOrder)[k].kind = "Var"
                  /\ Events(f, WalkOrder)[k].name = results[run].error.name

\* C4: in every returned frame map, a function's frameSize is its parameter
\* count plus the number of its Var nodes; every Var holds a slot at or above
\* the parameter count and below frameSize that no other Var holds; a use that
\* only parameter i (counted from 0) binds holds slot i; every recorded slot
\* is below frameSize.
C4_SlotsAreUnique ==
    \A run \in Runs : results[run].ok =>
      \A fn \in Functions :
        LET frame == results[run].frames[fn.name]
            ev == Events(fn, WalkOrder)
            n == Len(fn.params)
        IN  /\ frame.frameSize = n + CountKind(fn, "Var")
            /\ \A k \in 1..Len(ev) :
                 /\ ev[k].ref \in DOMAIN frame.idMap
                 /\ frame.idMap[ev[k].ref] \in 0..(frame.frameSize - 1)
                 /\ ev[k].kind = "Var" =>
                      /\ frame.idMap[ev[k].ref] >= n
                      /\ \A j \in 1..Len(ev) :
                            (ev[j].kind = "Var" /\ j # k)
                               => frame.idMap[ev[j].ref] # frame.idMap[ev[k].ref]
                 /\ (IsUse(ev[k]) /\ LastDecl(ev, k) = 0) =>
                      frame.idMap[ev[k].ref] = ParamIndex(fn.params, ev[k].name) - 1

\* C4 witness: a returned frame for a function with two parameters and two
\* Var nodes of the same name, one of them re-declaring a parameter.
C4_Witness ==
    \E run \in Runs : results[run].ok /\
      \E fn \in Functions :
        LET ev == Events(fn, WalkOrder)
        IN  /\ Len(fn.params) = 2
            /\ \E j, k \in 1..Len(ev) :
                  /\ j # k /\ ev[j].kind = "Var" /\ ev[k].kind = "Var"
                  /\ ev[j].name = ev[k].name
                  /\ ParamIndex(fn.params, ev[j].name) # 0

\* The error names the offender of the defect it reports.
NamesOffender(error) ==
    \/ error.kind = "Redefinition of function" /\ error.name \in DuplicateFunctionNames(ast)
    \/ error.kind = "Duplicate definition of argument"
           /\ error.name \in DuplicateParameterNames(ast)
    \/ error.kind = "Undefined variable" /\ error.name \in UnboundNames(ast, WalkOrder)

---------------------------------------------------------------------------
(* Claims about the assembly generators (SpecAsm).                          *)

Compiled == asm.pc \in {"module", "function"}
CompiledFunction == asm.unit.kids[1]

\* All nodes of a subtree.
RECURSIVE NodesOf(_)
NodesOf(t) == {t} \cup UNION {NodesOf(t.kids[i]) : i \in 1..Len(t.kids)}

\* The lines that belong to function fn in the output: its directives, its
\* entry label and everything up to its ret.
EmitsFunction(out, fn) ==
    \E i \in 1..Len(out) : out[i].op \in {".globl", "entry"} /\ out[i].a = fn.name

\* C7: with both assembly generators, visitFunction of a function with 0 to
\* 4 parameters raises no arity error (and no error at all when every
\* variable used is declared) and emits the function up to its ret; with 5 or
\* more parameters it fails with the arity error and has emitted no line of
\* the function (called on its own: no line at all).
C7_ArityBoundary ==
    Compiled =>
      LET fn == CompiledFunction
          g == asm.gen
      IN  /\ Len(fn.params) > 4 =>
                /\ g.error.kind = "More than 4 params is not supported"
                /\ ~EmitsFunction(g.out, fn)
                /\ asm.pc = "function" => g.out = <<>>
          /\ Len(fn.params) <= 4 =>
                /\ g.error.kind # "More than 4 params is not supported"
                /\ UnboundNames(asm.unit, PreOrder) = {} =>
                      /\ g.error = NoError
                      /\ EmitsFunction(g.out, fn)
                      /\ g.out[Len(g.out)].op = "ret"

\* C7 witness: visitFunction has failed on a function with 5 parameters.
C7_Witness ==
    /\ asm.pc = "function"
    /\ Len(CompiledFunction.params) = 5
    /\ asm.gen.error.kind = "More than 4 params is not supported"

\* C8 (the claim as stated): compiling a Call with more than four arguments
\* is a fatal error; no store of an argument lands at or beyond the 32 bytes
\* reserved for the call, and no bl is emitted for such a call.
C8_CallArityEnforced ==
    (Compiled /\ \E n \in NodesOf(asm.unit) : n.kind = "Call" /\ Len(n.kids) > 4) =>
      /\ asm.gen.error # NoError
      /\ \A i \in 1..Len(asm.gen.out) :
            (asm.gen.out[i].op = "str" /\ asm.gen.out[i].b = "sp")
               => asm.gen.out[i].imm < ArgumentArea
      /\ \A i \in 1..Len(asm.gen.out) : asm.gen.out[i].op # "bl"

---------------------------------------------------------------------------
(* The AST-equality specification: two trees are built, each node by its    *)
(* own `new` (as the parser builds one and a test builds the expected one   *)
(* by hand), or a tree is compared with itself; then equals is called.      *)

EqTrees ==
    Statements
    \cup
    { Number(1), Number(2), Id("x"), Id("y"),
      Call("f", <<>>), Call("g", <<>>), Call("f", <<Number(1)>>),
      Call("f", <<Number(2)>>), Call("f", <<Number(1), Id("x")>>),
      Multiply(Id("x"), Number(2)), Divide(Id("x"), Number(2)),
      Function("f", <<"x">>, Block(<<Return(Id("x"))>>)),
      Function("f", <<"y">>, Block(<<Return(Id("x"))>>)),
      Module(<<Function("main", <<>>, Block(<<Call("print", <<Number(1)>>)>>))>>),
      Module(<<Function("main", <<>>, Block(<<Assign("x", Number(1))>>))>>) }

InitCmp ==
    /\ FramesIdle
    /\ asm = AsmIdle
    /\ labelCounter = 0
    /\ parsing = ParseIdle
    /\ \E s \in EqTrees :
          \/ \E t \in EqTrees :
                cmp = [left |-> New(s, 0), right |-> New(t, Size(s)),
                       pc |-> "built", verdict |-> FALSE]
          \/ cmp = [left |-> New(s, 0), right |-> New(s, 0),
                    pc |-> "built", verdict |-> FALSE]

\* left.equals(right)
Equals ==
    /\ cmp.pc = "built"
    /\ cmp' = [cmp EXCEPT !.pc = "compared", !.verdict = equals(cmp.left, cmp.right)]
    /\ UNCHANGED <<ast, results, asm, labelCounter, parsing>>

NextCmp == Equals

SpecCmp == InitCmp /\ [][NextCmp]_vars

\* A tree without the identities of its nodes.
RECURSIVE Shape(_)
Shape(t) == [t EXCEPT !.ref = 0, !.kids = [i \in 1..Len(t.kids) |-> Shape(t.kids[i])]]

\* C10 (the claim as stated): equals is deep structural equality: two trees
\* are equal exactly when they have the same kinds, names, numbers and
\* pairwise equal children in the same order, whether or not they are made
\* of the same objects.
C10_EqualsIsStructural ==
    cmp.pc = "compared" => (cmp.verdict <=> Shape(cmp.left) = Shape(cmp.right))

---------------------------------------------------------------------------
(* parser.ts: Source, ParseResult and the combinators of Parser.  A string *)
(* is a sequence of one-character strings; an index counts from 0, as in   *)
(* the code.                                                               *)

Digits == <<"0", "1", "2", "3", "4", "5", "6", "7", "8", "9">>
DigitChars == {Digits[i] : i \in 1..Len(Digits)}
LetterChars ==
    {"a", "b", "c", "d", "e", "f", "g", "h", "i", "j", "k", "l", "m",
     "n", "o", "p", "q", "r", "s", "t", "u", "v", "w", "x", "y", "z",
     "A", "B", "C", "D", "E", "F", "G", "H", "I", "J", "K", "L", "M",
     "N", "O", "P", "Q", "R", "S", "T", "U", "V", "W", "X", "Y", "Z", "_"}
\* \w
WordChars == LetterChars \cup DigitChars
\* [ \n\r\t]
WhitespaceChars == {" ", "\n", "\r", "\t"}
\* what `.` does not match without the s flag
LineTerminators == {"\n", "\r"}

\* The string that a sequence of characters spells (an AST holds names as
\* strings).
RECURSIVE Text(_)
Text(chars) == IF chars = <<>> THEN "" ELSE Head(chars) \o Text(Tail(chars))

\* parseInt(digits), digits matching [0-9]+
RECURSIVE parseInt(_)
parseInt(digits) ==
    IF digits = <<>> THEN 0
    ELSE 10 * parseInt(SubSeq(digits, 1, Len(digits) - 1))
         + (CHOOSE n \in 0..9 : Digits[n + 1] = digits[Len(digits)])

\* The sticky regular expressions of the grammar, by shape.
\*   text                      /,/y  /==/y
Literal(text) == [kind |-> "literal", text |-> text, class |-> {}]
\*   text\b                    /function\b/y
Keyword(text) == [kind |-> "keyword", text |-> text, class |-> {}]
\*   text(?![class])           /=(?![=!])/y
NotBefore(text, class) == [kind |-> "notBefore", text |-> text, class |-> class]
\*   [class]+                  /[0-9]+/y  /[ \n\r\t]+/y
OneOrMore(class) == [kind |-> "oneOrMore", text |-> <<>>, class |-> class]
\*   /[a-zA-Z_][a-zA-Z0-9_]*/y
Identifier == [kind |-> "identifier", text |-> <<>>, class |-> {}]
\*   /[/][/].*/y
LineComment == [kind |-> "lineComment", text |-> <<"/", "/">>, class |-> {}]
\*   /[/][*].*[*][/]/sy
BlockComment == [kind |-> "blockComment", text |-> <<"/", "*">>, class |-> {}]

\* text occurs in string at index
StartsWith(string, index, text) ==
    /\ index + Len(text) <= Len(string)
    /\ \A k \in 1..Len(text) : string[index + k] = text[k]

\* Length of the longest run, from index on, of characters that are
\* (inside = TRUE) or are not (inside = FALSE) in class.
RECURSIVE Run(_, _, _, _)
Run(string, index, class, inside) ==
    IF index < Len(string) /\ ((string[index + 1] \in class) <=> inside)
    THEN 1 + Run(string, index + 1, class, inside)
    ELSE 0

\* \b at index: a word character on exactly one side
WordBoundary(string, index) ==
    (index > 0 /\ string[index] \in WordChars)
        # (index < Len(string) /\ string[index + 1] \in WordChars)

\* Length of the match of regexp in string at exactly lastIndex (sticky),
\* -1 when there is none.  Quantifiers are greedy: with the s flag `.*`
\* runs to the end of the string and backs up to the last `*/`.
MatchLength(regexp, string, lastIndex) ==
    LET after == lastIndex + Len(regexp.text)
    IN  CASE regexp.kind = "literal" ->
               IF StartsWith(string, lastIndex, regexp.text)
               THEN Len(regexp.text) ELSE -1
          [] regexp.kind = "keyword" ->
               IF StartsWith(string, lastIndex, regexp.text) /\ WordBoundary(string, after)
               THEN Len(regexp.text) ELSE -1
          [] regexp.kind = "notBefore" ->
               IF /\ StartsWith(string, lastIndex, regexp.text)
                  /\ ~(after < Len(string) /\ string[after + 1] \in regexp.class)
               THEN Len(regexp.text) ELSE -1
          [] regexp.kind = "oneOrMore" ->
               LET n == Run(string, lastIndex, regexp.class, TRUE)
               IN  IF n > 0 THEN n ELSE -1
          [] regexp.kind = "identifier" ->
               IF lastIndex < Len(string) /\ string[lastIndex + 1] \in LetterChars
               THEN 1 + Run(string, lastIndex + 1, WordChars, TRUE) ELSE -1
          [] regexp.kind = "lineComment" ->
               IF StartsWith(string, lastIndex, regexp.text)
               THEN 2 + Run(string, after, LineTerminators, FALSE) ELSE -1
          [] regexp.kind = "blockComment" ->
               LET ends == {j \in after..Len(string) : StartsWith(string, j, <<"*", "/">>)}
               IN  IF StartsWith(string, lastIndex, regexp.text) /\ ends # {}
                   THEN (CHOOSE j \in ends : \A k \in ends : k <= j) + 2 - lastIndex
                   ELSE -1

\* new Source(string, index)
Source(string, index) == [string |-> string, index |-> index]

\* new ParseResult(value, source)
ParseResult(value, source) == [ok |-> TRUE, value |-> value, source |-> source]

\* the null a parser returns when it does not match
null == [ok |-> FALSE]

\* Faulty variant of Source.match: the regular expression is not sticky, the
\* first match at or after the index is taken.
matchSearch(this, regexp) ==
    LET starts == {i \in this.index..Len(this.string) :
                     MatchLength(regexp, this.string, i) >= 0}
    IN  IF starts # {}
        THEN LET first == CHOOSE i \in starts : \A j \in starts : i <= j
                 n == MatchLength(regexp, this.string, first)
                 value == SubSeq(this.string, first + 1, first + n)
             IN  ParseResult(value, Source(this.string, this.index + Len(value)))
        ELSE null

\* Source.match
match(this, regexp) ==
    LET n == MatchLength(regexp, this.string, this.index)
    IN  IF n >= 0
        THEN LET value == SubSeq(this.string, this.index + 1, this.index + n)
                 newIndex == this.index + Len(value)
             IN  ParseResult(value, Source(this.string, newIndex))
        ELSE null

(* A Parser object holds its parse function, a closure.  Here the object   *)
(* is a record that names the combinator that built it and holds what the  *)
(* closure captured; parse (below) runs it.  A callback is likewise a      *)
(* record: the arrow function it is (fn) and the variables it captured     *)
(* (env); apply (below) calls it.                                          *)

\* (captured variables) => ...
Callback(fn, env) == [fn |-> fn, env |-> env]

\* Parser.regexp(regexp)
regexp(re) == [op |-> "regexp", regexp |-> re]

\* Parser.constant(value)
constant(value) == [op |-> "constant", value |-> value]

\* Parser.error(message): the placeholder of a rule that refers to itself;
\* its parse is assigned once the rule is defined (see assigned)
error(name) == [op |-> "error", name |-> name]

\* this.or(parser)
or(this, other) == [op |-> "or", this |-> this, parser |-> other]

\* Parser.zeroOrMore(parser)
zeroOrMore(p) == [op |-> "zeroOrMore", parser |-> p]

\* this.bind(callback)
bind(this, callback) == [op |-> "bind", this |-> this, callback |-> callback]

\* this.and(parser) = this.bind((_) => parser)
and(this, p) == bind(this, Callback("and", [parser |-> p]))

\* this.map(callback) = this.bind((value) => Parser.constant(callback(value)))
map(this, callback) == bind(this, Callback("map", [callback |-> callback]))

\* Parser.maybe(parser) = parser.or(Parser.constant(null))
maybe(p) == or(p, constant("null"))

---------------------------------------------------------------------------
(* parser.ts: the tokens and the grammar.                                  *)

\* Faulty variant of whitespace: it also matches no character at all.
whitespaceOrNothing == maybe(regexp(OneOrMore(WhitespaceChars)))

whitespace == regexp(OneOrMore(WhitespaceChars))
comments == or(regexp(LineComment), regexp(BlockComment))
ignored == zeroOrMore(or(whitespace, comments))

\* regexp(pattern).bind((value) => ignored.and(constant(value)))
token(pattern) == bind(regexp(pattern), Callback("token", <<>>))

FUNCTION == token(Keyword(<<"f", "u", "n", "c", "t", "i", "o", "n">>))
kwIF     == token(Keyword(<<"i", "f">>))
kwELSE   == token(Keyword(<<"e", "l", "s", "e">>))
RETURN   == token(Keyword(<<"r", "e", "t", "u", "r", "n">>))
VAR      == token(Keyword(<<"v", "a", "r">>))
WHILE    == token(Keyword(<<"w", "h", "i", "l", "e">>))

ASSIGN      == token(NotBefore(<<"=">>, {"=", "!"}))
COMMA       == token(Literal(<<",">>))
SEMICOLON   == token(Literal(<<";">>))
LEFT_PAREN  == token(Literal(<<"(">>))
RIGHT_PAREN == token(Literal(<<")">>))
LEFT_BRACE  == token(Literal(<<"{">>))
RIGHT_BRACE == token(Literal(<<"}">>))

\* .map((digits) => new Number(parseInt(digits)))
NUMBER == map(token(OneOrMore(DigitChars)), Callback("NUMBER", <<>>))

ID == token(Identifier)
\* .map((x) => new Id(x))
id == map(ID, Callback("id", <<>>))

\* .map((_) => Not) and so on: the value is the class, here its name
NOT       == map(token(Literal(<<"!">>)), Callback("class", [class |-> "Not"]))
EQUAL     == map(token(Literal(<<"=", "=">>)), Callback("class", [class |-> "Equal"]))
NOT_EQUAL == map(token(Literal(<<"!", "=">>)), Callback("class", [class |-> "NotEqual"]))
PLUS      == map(token(Literal(<<"+">>)), Callback("class", [class |-> "Add"]))
MINUS     == map(token(Literal(<<"-">>)), Callback("class", [class |-> "Subtract"]))
STAR      == map(token(Literal(<<"*">>)), Callback("class", [class |-> "Multiply"]))
SLASH     == map(token(Literal(<<"/">>)), Callback("class", [class |-> "Divide"]))

\* const expression = error("expression parser used before definition")
expression == error("expression")

\* args <- (expression (COMMA expression)*)?
args == or(bind(expression, Callback("args.arg", <<>>)), constant(<<>>))

\* call <- ID LEFT_PAREN args RIGHT_PAREN
call == bind(ID, Callback("call.callee", <<>>))

\* atom <- call / ID / NUMBER / LEFT_PAREN expression RIGHT_PAREN
atom ==
    or(or(or(call, id), NUMBER),
       bind(and(LEFT_PAREN, expression), Callback("atom.e", <<>>)))

\* unary <- NOT? atom
unary == bind(maybe(NOT), Callback("unary.not", <<>>))

infix(operatorParser, termParser) ==
    bind(termParser,
         Callback("infix.term",
                  [operatorParser |-> operatorParser, termParser |-> termParser]))

\* product <- unary ((STAR / SLASH) unary)*
product == infix(or(STAR, SLASH), unary)

\* sum <- product ((PLUS / MINUS) product)*
sum == infix(or(PLUS, MINUS), product)

\* comparison <- sum ((EQUAL / NOT_EQUAL) sum)*
comparison == infix(or(EQUAL, NOT_EQUAL), sum)

\* const statement = error("statement parser used before definition")
statement == error("statement")

\* returnStatement <- RETURN expression SEMICOLON
returnStatement ==
    bind(and(RETURN, expression), Callback("returnStatement.term", <<>>))

\* expressionStatement <- expression SEMICOLON
expressionStatement == bind(expression, Callback("expressionStatement.term", <<>>))

\* ifStatement <- IF LEFT_PAREN expression RIGHT_PAREN statement ELSE statement
ifStatement ==
    bind(and(and(kwIF, LEFT_PAREN), expression),
         Callback("ifStatement.conditional", <<>>))

\* whileStatement <- WHILE LEFT_PAREN expression RIGHT_PAREN statement
whileStatement ==
    bind(and(and(WHILE, LEFT_PAREN), expression),
         Callback("whileStatement.conditional", <<>>))

\* varStatement <- VAR ID ASSIGN expression SEMICOLON
varStatement == bind(and(VAR, ID), Callback("varStatement.name", <<>>))

\* assignmentStatement <- ID ASSIGN EXPRESSION SEMICOLON
assignmentStatement == bind(ID, Callback("assignmentStatement.name", <<>>))

\* blockStatement <- LEFT_BRACE statement* RIGHT_BRACE
blockStatement ==
    bind(and(LEFT_BRACE, zeroOrMore(statement)),
         Callback("blockStatement.statements", <<>>))

\* parameters <- (ID (COMMA ID)*)?
parameters == or(bind(ID, Callback("parameters.param", <<>>)), constant(<<>>))

\* functionDecl <- FUNCTION ID LEFT_PAREN parameters RIGHT_PAREN blockStatement
functionDecl == and(FUNCTION, bind(ID, Callback("functionDecl.name", <<>>)))

\* statement <- returnStatement / ifStatement / whileStatement / varStatement
\*            / assignmentStatement / blockStatement / expressionStatement
statementParser ==
    or(or(or(or(or(or(returnStatement, ifStatement), whileStatement),
                varStatement),
             assignmentStatement),
          blockStatement),
       expressionStatement)

\* parser <- ignored functionDecl*
parser == map(and(ignored, zeroOrMore(functionDecl)), Callback("parser", <<>>))

\* expression.parse = comparison.parse; statement.parse = statementParser.parse
assigned(name) ==
    CASE name = "expression" -> comparison
      [] name = "statement"  -> statementParser

\* new operator(left, right)
new(operator, left, right) == Node(operator, "", 0, <<>>, <<left, right>>)

\* Faulty variant of reduce: the fold is from the right.
RECURSIVE reduceRight(_, _)
reduceRight(operatorTerms, left) ==
    IF operatorTerms = <<>> THEN left
    ELSE new(Head(operatorTerms).operator, left,
             reduceRight(Tail(operatorTerms), Head(operatorTerms).term))

\* operatorTerms.reduce((left, {operator, term}) => new operator(left, term), term)
RECURSIVE reduce(_, _)
reduce(operatorTerms, left) ==
    IF operatorTerms = <<>> THEN left
    ELSE reduce(Tail(operatorTerms),
                new(Head(operatorTerms).operator, left, Head(operatorTerms).term))

\* the names of a list of ID values
Texts(names) == [i \in 1..Len(names) |-> Text(names[i])]

\* callback(value): the arrow functions of the combinators and of the
\* grammar, each under the rule and the parameter it belongs to.
RECURSIVE apply(_, _)
apply(callback, value) ==
    LET fn == callback.fn
        env == callback.env
    IN  CASE fn = "and" -> env.parser
          [] fn = "map" -> constant(apply(env.callback, value))
          \* token: (value) => ignored.and(constant(value))
          [] fn = "token" -> and(ignored, constant(value))
          \* (digits) => new Number(parseInt(digits))
          [] fn = "NUMBER" -> Number(parseInt(value))
          \* (x) => new Id(x)
          [] fn = "id" -> Id(Text(value))
          \* (_) => Not, (_) => Equal, ...
          [] fn = "class" -> env.class
          \* args: (arg) => zeroOrMore(COMMA.and(expression)).bind((args) => ...)
          [] fn = "args.arg" ->
               bind(zeroOrMore(and(COMMA, expression)),
                    Callback("args.args", [arg |-> value]))
          \* (args) => constant([arg, ...args])
          [] fn = "args.args" -> constant(<<env.arg>> \o value)
          \* call: (callee) => LEFT_PAREN.and(args.bind((args) => ...))
          [] fn = "call.callee" ->
               and(LEFT_PAREN, bind(args, Callback("call.args", [callee |-> value])))
          \* (args) => RIGHT_PAREN.and(constant(new Call(callee, args)))
          [] fn = "call.args" ->
               and(RIGHT_PAREN, constant(Call(Text(env.callee), value)))
          \* atom: (e) => RIGHT_PAREN.and(constant(e))
          [] fn = "atom.e" -> and(RIGHT_PAREN, constant(value))
          \* unary: (not) => atom.map((term) => ...)
          [] fn = "unary.not" -> map(atom, Callback("unary.term", [not |-> value]))
          \* (term) => not ? new Not(term) : term
          [] fn = "unary.term" -> IF env.not # "null" THEN Not(value) ELSE value
          \* infix: (term) => zeroOrMore(operatorParser.bind(...)).map(...)
          [] fn = "infix.term" ->
               map(zeroOrMore(bind(env.operatorParser,
                                   Callback("infix.operator",
                                            [termParser |-> env.termParser]))),
                   Callback("infix.operatorTerms", [term |-> value]))
          \* (operator) => termParser.bind((term) => ...)
          [] fn = "infix.operator" ->
               bind(env.termParser, Callback("infix.pair", [operator |-> value]))
          \* (term) => constant({ operator, term })
          [] fn = "infix.pair" -> constant([operator |-> env.operator, term |-> value])
          \* (operatorTerms) => operatorTerms.reduce(..., term)
          [] fn = "infix.operatorTerms" -> reduce(value, env.term)
          \* returnStatement: (term) => SEMICOLON.and(constant(new Return(term)))
          [] fn = "returnStatement.term" -> and(SEMICOLON, constant(Return(value)))
          \* expressionStatement: (term) => SEMICOLON.and(constant(term))
          [] fn = "expressionStatement.term" -> and(SEMICOLON, constant(value))
          \* ifStatement: (conditional) => RIGHT_PAREN.and(statement).bind(...)
          [] fn = "ifStatement.conditional" ->
               bind(and(RIGHT_PAREN, statement),
                    Callback("ifStatement.consequence", [conditional |-> value]))
          \* (consequence) => ELSE.and(statement).bind(...)
          [] fn = "ifStatement.consequence" ->
               bind(and(kwELSE, statement),
                    Callback("ifStatement.alternative",
                             [conditional |-> env.conditional, consequence |-> value]))
          \* (alternative) => constant(new If(conditional, consequence, alternative))
          [] fn = "ifStatement.alternative" ->
               constant(If(env.conditional, env.consequence, value))
          \* whileStatement: (conditional) => RIGHT_PAREN.and(statement).bind(...)
          [] fn = "whileStatement.conditional" ->
               bind(and(RIGHT_PAREN, statement),
                    Callback("whileStatement.body", [conditional |-> value]))
          \* (body) => constant(new While(conditional, body))
          [] fn = "whileStatement.body" -> constant(While(env.conditional, value))
          \* varStatement: (name) => ASSIGN.and(expression).bind(...)
          [] fn = "varStatement.name" ->
               bind(and(ASSIGN, expression), Callback("varStatement.value", [name |-> value]))
          \* (value) => SEMICOLON.and(constant(new Var(name, value)))
          [] fn = "varStatement.value" ->
               and(SEMICOLON, constant(Var(Text(env.name), value)))
          \* assignmentStatement: (name) => ASSIGN.and(expression).bind(...)
          [] fn = "assignmentStatement.name" ->
               bind(and(ASSIGN, expression),
                    Callback("assignmentStatement.value", [name |-> value]))
          \* (value) => SEMICOLON.and(constant(new Assign(name, value)))
          [] fn = "assignmentStatement.value" ->
               and(SEMICOLON, constant(Assign(Text(env.name), value)))
          \* blockStatement: (statements) => RIGHT_BRACE.and(constant(new Block(statements)))
          [] fn = "blockStatement.statements" -> and(RIGHT_BRACE, constant(Block(value)))
          \* parameters: (param) => zeroOrMore(COMMA.and(ID)).bind(...)
          [] fn = "parameters.param" ->
               bind(zeroOrMore(and(COMMA, ID)), Callback("parameters.params", [param |-> value]))
          \* (params) => constant([param, ...params])
          [] fn = "parameters.params" -> constant(<<env.param>> \o value)
          \* functionDecl: (name) => LEFT_PAREN.and(parameters).bind(...)
          [] fn = "functionDecl.name" ->
               bind(and(LEFT_PAREN, parameters),
                    Callback("functionDecl.parameters", [name |-> value]))
          \* (parameters) => RIGHT_PAREN.and(blockStatement).bind(...)
          [] fn = "functionDecl.parameters" ->
               bind(and(RIGHT_PAREN, blockStatement),
                    Callback("functionDecl.body", [name |-> env.name, parameters |-> value]))
          \* (body) => constant(new Function(name, parameters, body))
          [] fn = "functionDecl.body" ->
               constant(Function(Text(env.name), Texts(env.parameters), value))
          \* parser: (functions) => new Module(functions)
          [] fn = "parser" -> Module(value)

\* this.parse(source): the parse function that each combinator gives the
\* parser it builds.
RECURSIVE parse(_, _)
parse(this, source) ==
    CASE this.op = "regexp" -> match(source, this.regexp)
      [] this.op = "constant" -> ParseResult(this.value, source)
      [] this.op = "error" -> parse(assigned(this.name), source)
      [] this.op = "or" ->
           LET result == parse(this.this, source)
           IN  IF result.ok THEN result ELSE parse(this.parser, source)
      \* while (item = parser.parse(source)) { source = item.source; results.push(item.value); }
      [] this.op = "zeroOrMore" ->
           LET item == parse(this.parser, source)
           IN  IF item.ok
               THEN LET more == parse(this, item.source)
                    IN  ParseResult(<<item.value>> \o more.value, more.source)
               ELSE ParseResult(<<>>, source)
      [] this.op = "bind" ->
           LET result == parse(this.this, source)
           IN  IF result.ok
               THEN parse(apply(this.callback, result.value), result.source)
               ELSE null

\* Error(`Parse error at index ${index}`)
ParseError(index) == [thrown |-> TRUE, message |-> "Parse error at index", index |-> index]

\* parseStringToCompletion without the test of the index against the length
parseStringToCompletionPrefix(this, string) ==
    LET source == Source(string, 0)
        result == parse(this, source)
    IN  IF ~result.ok THEN ParseError(0)
        ELSE [thrown |-> FALSE, value |-> result.value]

\* this.parseStringToCompletion(string): the value returned or the error thrown
parseStringToCompletion(this, string) ==
    LET source == Source(string, 0)
        result == parse(this, source)
    IN  IF ~result.ok THEN ParseError(0)
        ELSE LET index == result.source.index
             IN  IF index # Len(result.source.string)
                 THEN ParseError(index)
                 ELSE [thrown |-> FALSE, value |-> result.value]

---------------------------------------------------------------------------
(* The parsing specification: a parser object and an input string are      *)
(* chosen, then parseStringToCompletion runs.  An input is a head (empty,  *)
(* or a text of the language) followed by up to MaxTail further lexemes,   *)
(* so that inputs parse wholly, parse up to a suffix, or do not parse.     *)

Parsers == {"parser", "statement", "expression"}

\* the parser object of a name
Named(name) ==
    CASE name = "parser"     -> parser
      [] name = "statement"  -> statement
      [] name = "expression" -> expression

Heads ==
    { <<>>,
      \* function f(){}
      <<"f", "u", "n", "c", "t", "i", "o", "n", " ", "f", "(", ")", "{", "}">>,
      \* function f(x){return x;}
      <<"f", "u", "n", "c", "t", "i", "o", "n", " ", "f", "(", "x", ")", "{", "r", "e", "t", "u", "r", "n", " ", "x", ";", "}">>,
      \* x=1;
      <<"x", "=", "1", ";">>,
      \* f(1)
      <<"f", "(", "1", ")">>,
      \* 1+x
      <<"1", "+", "x">>,
      \* {x;}
      <<"{", "x", ";", "}">> }

TailLexemes ==
    { <<" ">>, <<"\n">>, <<"}">>, <<"x">>, <<"1">>, <<";">>, <<"+">>, <<"(">>,
      <<"=">>, <<"/", "/", "c">>, <<"/", "*", "c", "*", "/">> }

Inputs(n) == {head \o Flatten(tail) : head \in Heads, tail \in SeqsUpTo(TailLexemes, n)}

InitParse ==
    /\ FramesIdle
    /\ asm = AsmIdle
    /\ labelCounter = 0
    /\ cmp = CmpIdle
    /\ \E this \in Parsers, string \in Inputs(MaxTail) :
          parsing = [this |-> this, string |-> string, pc |-> "start"]

\* parsing.this.parseStringToCompletion(parsing.string)
ParseToCompletion ==
    /\ parsing.pc = "start"
    /\ parsing' = Put(Put(parsing, "pc", "done"), "outcome",
                    parseStringToCompletion(Named(parsing.this), parsing.string))
    /\ UNCHANGED <<ast, results, asm, labelCounter, cmp>>

NextParse == ParseToCompletion

SpecParse == InitParse /\ [][NextParse]_vars

\* The result of the parser object itself on the whole input.
Parsed == parse(Named(parsing.this), Source(parsing.string, 0))

\* C9: parseStringToCompletion returns a value only when the parser matched
\* and its final index is the length of the input, and the value is the
\* parser's; when the parser matched up to an index short of the length it
\* throws "Parse error at index" with that index, where the unconsumed
\* suffix starts; when the parser returned null it throws the error with
\* index 0.
C9_CompletionContract ==
    parsing.pc = "done" =>
      /\ ~parsing.outcome.thrown =>
            /\ Parsed.ok
            /\ Parsed.source.index = Len(parsing.string)
            /\ parsing.outcome.value = Parsed.value
      /\ (Parsed.ok /\ Parsed.source.index < Len(parsing.string)) =>
            /\ parsing.outcome.thrown
            /\ parsing.outcome.message = "Parse error at index"
            /\ parsing.outcome.index = Parsed.source.index
      /\ ~Parsed.ok =>
            /\ parsing.outcome.thrown
            /\ parsing.outcome.message = "Parse error at index"
            /\ parsing.outcome.index = 0

\* The module parser was run on a function followed by a stray `}`: it
\* matched the function and the error names the index of the brace.
C9_Witness ==
    /\ parsing.pc = "done"
    /\ parsing.this = "parser"
    /\ Parsed.ok
    /\ Parsed.value.kids # <<>>
    /\ Parsed.source.index > 0
    /\ Parsed.source.index < Len(parsing.string)
    /\ parsing.string[Parsed.source.index + 1] = "}"
    /\ parsing.outcome.thrown
    /\ parsing.outcome.index = Parsed.source.index

---------------------------------------------------------------------------
(* The matching specification: Parser.regexp(regexp).parse(source) on a    *)
(* Source at any index of a short string, for the shapes of regular        *)
(* expression the grammar uses (sourceTest of main_test.ts).               *)

\* Pieces of the matched strings.
MatchPieces ==
    { <<"i", "f">>, <<"x">>, <<"1">>, <<"=">>, <<"/", "*">>, <<"*", "/">>,
      <<"/", "/">>, <<"\n">> }

MatchStrings(n) == {Flatten(pieces) : pieces \in SeqsUpTo(MatchPieces, n)}

MatchPatterns ==
    { Keyword(<<"i", "f">>), NotBefore(<<"=">>, {"=", "!"}), Literal(<<"=", "=">>),
      OneOrMore(DigitChars), OneOrMore(WhitespaceChars), Identifier,
      LineComment, BlockComment }

InitMatch ==
    /\ FramesIdle
    /\ asm = AsmIdle
    /\ labelCounter = 0
    /\ cmp = CmpIdle
    /\ \E string \in MatchStrings(MaxPieces), re \in MatchPatterns :
          \E index \in 0..Len(string) :
             parsing = [pc |-> "source", this |-> Source(string, index), regexp |-> re]

\* const result = Parser.regexp(regexp).parse(source); match assigns to no
\* field of the Source it is called on.
Match ==
    /\ parsing.pc = "source"
    /\ parsing' = [pc |-> "matched", before |-> parsing.this, this |-> parsing.this,
                   regexp |-> parsing.regexp,
                   result |-> parse(regexp(parsing.regexp), parsing.this)]
    /\ UNCHANGED <<ast, results, asm, labelCounter, cmp>>

NextMatch == Match

SpecMatch == InitMatch /\ [][NextMatch]_vars

\* The words of a regular expression, and what it demands of the character
\* after the word (next is that character, <<>> at the end of the string).
IsMatch(re, word, next) ==
    LET n == Len(word)
        free(class) == next = <<>> \/ next[1] \notin class
    IN  CASE re.kind = "literal" -> word = re.text
          [] re.kind = "keyword" -> word = re.text /\ free(WordChars)
          [] re.kind = "notBefore" -> word = re.text /\ free(re.class)
          [] re.kind = "oneOrMore" -> n >= 1 /\ \A k \in 1..n : word[k] \in re.class
          [] re.kind = "identifier" ->
               /\ n >= 1
               /\ word[1] \in LetterChars
               /\ \A k \in 2..n : word[k] \in WordChars
          [] re.kind = "lineComment" ->
               /\ n >= 2
               /\ SubSeq(word, 1, 2) = <<"/", "/">>
               /\ \A k \in 3..n : word[k] \notin LineTerminators
          [] re.kind = "blockComment" ->
               /\ n >= 4
               /\ SubSeq(word, 1, 2) = <<"/", "*">>
               /\ SubSeq(word, n - 1, n) = <<"*", "/">>

\* The lengths of the matches of re in string that start exactly at index.
MatchesAt(re, string, index) ==
    { n \in 0..(Len(string) - index) :
        IsMatch(re, SubSeq(string, index + 1, index + n),
                IF index + n < Len(string) THEN <<string[index + n + 1]>> ELSE <<>>) }

\* C11: Parser.regexp on a Source at index i succeeds exactly when the
\* pattern has a match that starts at i; the value is then that match (the
\* longest, all quantifiers being greedy), the Source of the result has the
\* same string and index i plus the length of the value, the Source the
\* parser was applied to is as it was, and without a match the result is
\* null.
C11_RegexpMatchesAtIndex ==
    parsing.pc = "matched" =>
      LET string == parsing.before.string
          i == parsing.before.index
          lengths == MatchesAt(parsing.regexp, string, i)
      IN  /\ parsing.this = parsing.before
          /\ parsing.result.ok <=> lengths # {}
          /\ parsing.result.ok =>
                /\ Len(parsing.result.value) \in lengths
                /\ \A n \in lengths : n <= Len(parsing.result.value)
                /\ parsing.result.value
                     = SubSeq(string, i + 1, i + Len(parsing.result.value))
                /\ parsing.result.source
                     = Source(string, i + Len(parsing.result.value))
          /\ ~parsing.result.ok => parsing.result = null

\* A match in the middle of a string: at an index above 0, with characters
\* left after it.
C11_Witness ==
    /\ parsing.pc = "matched"
    /\ parsing.before.index > 0
    /\ parsing.result.ok
    /\ Len(parsing.result.value) >= 2
    /\ parsing.result.source.index < Len(parsing.before.string)
    /\ parsing.this = parsing.before

---------------------------------------------------------------------------
(* The expression specification: the expression parser is run to           *)
(* completion on a chain  t0 op1 t1 ... opn tn  of operands and binary     *)
(* operators, written without blanks.                                      *)

\* The operands of a chain: the text and the tree of an identifier, a
\* number, a negation (unary) and a parenthesized expression (atom).
ChainOperands ==
    { [text |-> <<"x">>, tree |-> Id("x")],
      [text |-> <<"1">>, tree |-> Number(1)],
      [text |-> <<"!", "x">>, tree |-> Not(Id("x"))],
      [text |-> <<"(", "x", "-", "1", ")">>, tree |-> Subtract(Id("x"), Number(1))] }

\* The binary operators: the text, the class constructed and the level of
\* the grammar (1 comparison, 2 sum, 3 product).
ChainOperators ==
    { [text |-> <<"=", "=">>, class |-> "Equal", level |-> 1],
      [text |-> <<"!", "=">>, class |-> "NotEqual", level |-> 1],
      [text |-> <<"+">>, class |-> "Add", level |-> 2],
      [text |-> <<"-">>, class |-> "Subtract", level |-> 2],
      [text |-> <<"*">>, class |-> "Multiply", level |-> 3],
      [text |-> <<"/">>, class |-> "Divide", level |-> 3] }

Chains(n) ==
    UNION { { [operands |-> operands, operators |-> operators] :
                operands \in [1..(k + 1) -> ChainOperands],
                operators \in [1..k -> ChainOperators] } : k \in 0..n }

\* t0 op1 t1 ... opn tn
ChainText(chain) ==
    chain.operands[1].text
      \o Flatten([k \in 1..Len(chain.operators) |->
                    chain.operators[k].text \o chain.operands[k + 1].text])

InitExpr ==
    /\ FramesIdle
    /\ asm = AsmIdle
    /\ labelCounter = 0
    /\ cmp = CmpIdle
    /\ \E chain \in Chains(MaxOperators) :
          parsing = [this |-> "expression", string |-> ChainText(chain),
                     pc |-> "start", chain |-> chain]

NextExpr == ParseToCompletion

SpecExpr == InitExpr /\ [][NextExpr]_vars

\* The tree that the precedence and the associativity of the operators give
\* a chain: the chain splits at the last operator of the loosest level in
\* it, everything before is the left operand, everything after the right.
RECURSIVE ChainTree(_, _)
ChainTree(operands, operators) ==
    IF operators = <<>> THEN operands[1].tree
    ELSE LET n == Len(operators)
             loosest == CHOOSE l \in 1..3 :
                          /\ \E k \in 1..n : operators[k].level = l
                          /\ \A k \in 1..n : operators[k].level >= l
             last == CHOOSE k \in 1..n :
                          /\ operators[k].level = loosest
                          /\ \A j \in (k + 1)..n : operators[j].level # loosest
         IN  Node(operators[last].class, "", 0, <<>>,
                  << ChainTree(SubSeq(operands, 1, last), SubSeq(operators, 1, last - 1)),
                     ChainTree(SubSeq(operands, last + 1, n + 1),
                               SubSeq(operators, last + 1, n)) >>)

\* C12: comparison binds loosest, then sum, then product, then unary and
\* atom, and every level associates to the left: the expression parser
\* consumes a whole chain and returns the tree that splits it at the last
\* operator of its loosest level, recursively.
C12_PrecedenceAndLeftFold ==
    (parsing.pc = "done" /\ "chain" \in DOMAIN parsing) =>
      /\ ~parsing.outcome.thrown
      /\ parsing.outcome.value
           = ChainTree(parsing.chain.operands, parsing.chain.operators)

\* A chain of two operators of one level was parsed into a left fold, and
\* its operands are not all plain atoms.
C12_Witness ==
    /\ parsing.pc = "done"
    /\ "chain" \in DOMAIN parsing
    /\ Len(parsing.chain.operators) = 2
    /\ parsing.chain.operators[1].class = "Subtract"
    /\ parsing.chain.operators[2].class = "Add"
    /\ parsing.chain.operands[3].tree.kind = "Not"
    /\ ~parsing.outcome.thrown
    /\ parsing.outcome.value.kind = "Add"
    /\ parsing.outcome.value.kids[1].kind = "Subtract"
---------------------------------------------------------------------------
(* mlir.sh: MlirCodegen, the generator of structured IR.  A visit returns   *)
(* a Value or undefined: the field value of the generator holds what the    *)
(* last visit returned.  Value.#counter and Label.#counter are statics of   *)
(* the process (values, counter).  An emitted line is a record: result is   *)
(* the Value the line defines, operands the Values, Labels or numbers it    *)
(* names in order, text its predicate, callee or function name, params the  *)
(* parameter names of a func.func line.                                     *)

\* What a template prints as "undefined": no Value.
Undefined == -1

MlirLine(op, result, operands, text) ==
    [op |-> op, result |-> result, operands |-> operands, text |-> text, params |-> <<>>]

NewMlirCodegen(frameInfos, labels, values) ==
    [variant |-> "mlir", frameInfos |-> frameInfos,
     currentFrame |-> NewFunctionFrame, frameVars |-> <<>>,
     out |-> <<>>, error |-> NoError, counter |-> labels, values |-> values,
     value |-> Undefined]

\* new Value(): numbered Value.#counter++; the new Value is left in value.
newValue(g) == [g EXCEPT !.values = g.values + 1, !.value = g.values]

\* A visit method that returns undefined.
NoValue(g) == [g EXCEPT !.value = Undefined]

emitLabel(g, label) == emit(g, MlirLine("label", Undefined, <<label>>, ""))

emitBr(g, jumpLabel, nextLabel) ==
    emitLabel(emit(g, MlirLine("cf.br", Undefined, <<jumpLabel>>, "")), nextLabel)

loadNumber(g, n) ==
    LET v == newValue(g) IN emit(v, MlirLine("arith.constant", v.value, <<n>>, ""))

\* this.#frameVars![offset]: undefined when offset is undefined or beyond
\* the array.
FrameVar(g, offset) ==
    IF offset.defined /\ (offset.value + 1) \in DOMAIN g.frameVars
    THEN g.frameVars[offset.value + 1] ELSE Undefined

RECURSIVE mlirVisit(_, _)
RECURSIVE mlirForEach(_, _, _)
RECURSIVE mlirArgs(_, _, _, _)

\* forEach: the next node is visited once the visit before it has returned.
mlirForEach(g, nodes, i) ==
    IF i > Len(nodes) THEN g
    ELSE LET h == mlirVisit(g, nodes[i])
         IN  IF h.error # NoError THEN h ELSE mlirForEach(h, nodes, i + 1)

mlirVisitNumber(g, node) == loadNumber(g, node.value)

\* getOffset(node)!, no check
mlirVisitId(g, node) ==
    LET ref == FrameVar(g, getOffset(g.currentFrame, node))
        v == newValue(g)
    IN  emit(v, MlirLine("memref.load", v.value, <<ref>>, ""))

mlirVisitNot(g, node) ==
    LET t == mlirVisit(g, node.kids[1])
        zero == loadNumber(t, 0)
        one == loadNumber(zero, 1)
        cond == newValue(one)
        v == newValue(cond)
    IN  emitAll(v, << MlirLine("arith.cmpi", cond.value, <<t.value, one.value>>, "eq"),
                      MlirLine("arith.select", v.value,
                               <<cond.value, zero.value, one.value>>, "") >>)

visitComp(g, node, pred) ==
    LET left == mlirVisit(g, node.kids[1])
        right == mlirVisit(left, node.kids[2])
        zero == loadNumber(right, 0)
        one == loadNumber(zero, 1)
        cond == newValue(one)
        v == newValue(cond)
    IN  emitAll(v, << MlirLine("arith.cmpi", cond.value, <<left.value, right.value>>, pred),
                      MlirLine("arith.select", v.value,
                               <<cond.value, one.value, zero.value>>, "") >>)

mlirVisitEqual(g, node) == visitComp(g, node, "eq")
mlirVisitNotEqual(g, node) == visitComp(g, node, "ne")

visitArithOp(g, node, op) ==
    LET left == mlirVisit(g, node.kids[1])
        right == mlirVisit(left, node.kids[2])
        v == newValue(right)
    IN  emit(v, MlirLine(op, v.value, <<left.value, right.value>>, ""))

mlirVisitAdd(g, node) == visitArithOp(g, node, "arith.addi")
mlirVisitSubtract(g, node) == visitArithOp(g, node, "arith.subi")
mlirVisitMultiply(g, node) == visitArithOp(g, node, "arith.muli")
mlirVisitDivide(g, node) == visitArithOp(g, node, "arith.divsi")

\* node.args.map((arg) => arg.visit(this)!)
mlirArgs(g, nodes, i, values) ==
    IF i > Len(nodes) THEN [gen |-> g, values |-> values]
    ELSE LET a == mlirVisit(g, nodes[i])
         IN  mlirArgs(a, nodes, i + 1, Append(values, a.value))

mlirVisitCall(g, node) ==
    LET a == mlirArgs(g, node.kids, 1, <<>>)
        v == newValue(a.gen)
    IN  emit(v, MlirLine("call", v.value, a.values, node.name))

\* Faulty variant of mlirVisitReturn: no label is emitted after the return.
mlirVisitReturnUnlabelled(g, node) ==
    LET t == mlirVisit(g, node.kids[1])
    IN  NoValue(emit(t, MlirLine("return", Undefined, <<t.value>>, "")))

mlirVisitReturn(g, node) ==
    LET t == mlirVisit(g, node.kids[1])
        r == emit(t, MlirLine("return", Undefined, <<t.value>>, ""))
        wasteLabel == r.counter
    IN  NoValue(emitLabel(newLabel(r), wasteLabel))

mlirVisitBlock(g, node) == NoValue(mlirForEach(g, node.kids, 1))

\* The four lines of a cf.switch.
emitSwitch(g, conditional, defaultLabel, oneLabel) ==
    emitAll(g, << MlirLine("cf.switch", Undefined, <<conditional>>, ""),
                  MlirLine("default", Undefined, <<defaultLabel>>, ""),
                  MlirLine("case", Undefined, <<1, oneLabel>>, ""),
                  MlirLine("]", Undefined, <<>>, "") >>)

mlirVisitIf(g, node) ==
    LET c == mlirVisit(g, node.kids[1])
        ifTrueLabel == c.counter
        ifFalseLabel == c.counter + 1
        endIfLabel == c.counter + 2
        s == emitLabel(emitSwitch(newLabel(newLabel(newLabel(c))), c.value,
                                  ifFalseLabel, ifTrueLabel),
                       ifTrueLabel)
        t == emitBr(mlirVisit(s, node.kids[2]), endIfLabel, ifFalseLabel)
    IN  NoValue(emitBr(mlirVisit(t, node.kids[3]), endIfLabel, endIfLabel))

\* for (let i = 0; i < currentFrame.frameSize; i++) { new Value(); emit; push }
RECURSIVE mlirAllocate(_, _)
mlirAllocate(g, remaining) ==
    IF remaining <= 0 THEN g
    ELSE LET v == newValue(g)
             a == emit(v, MlirLine("memref.alloca", v.value, <<>>, ""))
         IN  mlirAllocate([a EXCEPT !.frameVars = Append(a.frameVars, v.value)],
                          remaining - 1)

\* Faulty variant of mlirStoreParameters: the parameters are stored in
\* reverse order of the cells.
RECURSIVE mlirStoreParametersReversed(_, _, _)
mlirStoreParametersReversed(g, names, i) ==
    IF i > Len(names) THEN g
    ELSE mlirStoreParametersReversed(
            emit(g, MlirLine("memref.store.param", Undefined,
                             <<FrameVar(g, [defined |-> TRUE, value |-> Len(names) - i])>>,
                             names[i])),
            names, i + 1)

\* node.parameters.forEach((param, i) => emit(memref.store %param, frameVars[i]))
RECURSIVE mlirStoreParameters(_, _, _)
mlirStoreParameters(g, names, i) ==
    IF i > Len(names) THEN g
    ELSE mlirStoreParameters(
            emit(g, MlirLine("memref.store.param", Undefined,
                             <<FrameVar(g, [defined |-> TRUE, value |-> i - 1])>>,
                             names[i])),
            names, i + 1)

mlirVisitFunction(g, node) ==
    LET currentFrame == g.frameInfos[node.name]
        head == emit(g, [MlirLine("func.func", Undefined, <<>>, node.name)
                            EXCEPT !.params = node.params])
        allocated == mlirAllocate([head EXCEPT !.frameVars = <<>>], currentFrame.frameSize)
        pro == mlirStoreParameters(allocated, node.params, 1)
        body == mlirVisit([pro EXCEPT !.currentFrame = currentFrame], node.kids[1])
        zero == loadNumber([body EXCEPT !.currentFrame = NewFunctionFrame,
                                        !.frameVars = <<>>], 0)
    IN  NoValue(emitAll(zero, << MlirLine("return", Undefined, <<zero.value>>, ""),
                                 MlirLine("}", Undefined, <<>>, "") >>))

mlirVisitVar(g, node) ==
    LET v == mlirVisit(g, node.kids[1])
        ref == FrameVar(v, getOffset(v.currentFrame, node))
    IN  NoValue(emit(v, MlirLine("memref.store", Undefined, <<v.value, ref>>, "")))

mlirVisitAssign(g, node) ==
    LET v == mlirVisit(g, node.kids[1])
        ref == FrameVar(v, getOffset(v.currentFrame, node))
    IN  NoValue(emit(v, MlirLine("memref.store", Undefined, <<v.value, ref>>, "")))

mlirVisitWhile(g, node) ==
    LET loopStartLabel == g.counter
        loopBodyLabel == g.counter + 1
        loopEndLabel == g.counter + 2
        s == emitBr(newLabel(newLabel(newLabel(g))), loopStartLabel, loopStartLabel)
        c == mlirVisit(s, node.kids[1])
        b == emitLabel(emitSwitch(c, c.value, loopEndLabel, loopBodyLabel), loopBodyLabel)
    IN  NoValue(emitBr(mlirVisit(b, node.kids[2]), loopStartLabel, loopEndLabel))

mlirVisitModule(g, node) ==
    NoValue(emitAll(mlirForEach(emit(g, MlirLine("module {", Undefined, <<>>, "")),
                                node.kids, 1),
                    << MlirLine("func.func private", Undefined, <<>>, "print"),
                       MlirLine("}", Undefined, <<>>, "") >>))

\* node.visit(generator) for an MlirCodegen.  A thrown error unwinds.
mlirVisit(g, node) ==
    IF g.error # NoError THEN g ELSE
    CASE node.kind = "Number"   -> mlirVisitNumber(g, node)
      [] node.kind = "Id"       -> mlirVisitId(g, node)
      [] node.kind = "Not"      -> mlirVisitNot(g, node)
      [] node.kind = "Equal"    -> mlirVisitEqual(g, node)
      [] node.kind = "NotEqual" -> mlirVisitNotEqual(g, node)
      [] node.kind = "Add"      -> mlirVisitAdd(g, node)
      [] node.kind = "Subtract" -> mlirVisitSubtract(g, node)
      [] node.kind = "Multiply" -> mlirVisitMultiply(g, node)
      [] node.kind = "Divide"   -> mlirVisitDivide(g, node)
      [] node.kind = "Call"     -> mlirVisitCall(g, node)
      [] node.kind = "Return"   -> mlirVisitReturn(g, node)
      [] node.kind = "Block"    -> mlirVisitBlock(g, node)
      [] node.kind = "If"       -> mlirVisitIf(g, node)
      [] node.kind = "Function" -> mlirVisitFunction(g, node)
      [] node.kind = "Var"      -> mlirVisitVar(g, node)
      [] node.kind = "Assign"   -> mlirVisitAssign(g, node)
      [] node.kind = "While"    -> mlirVisitWhile(g, node)
      [] node.kind = "Module"   -> mlirVisitModule(g, node)
---------------------------------------------------------------------------
(* The compilation specification: main (main.ts) in one process.  A parsed  *)
(* module is analysed by analyzeFrames (the generators built from a frame   *)
(* map: frame-map assembly and MlirCodegen), then visited by a fresh        *)
(* generator whose lines go to the console as they are emitted (gen.out).   *)
(* The name-table generator (first main.ts) is run without analysis.  The   *)
(* process may compile the same module again, with a fresh generator;       *)
(* Label.#counter (labelCounter) and Value.#counter (asm.values) are        *)
(* statics of the process.  outputs holds the console output of each        *)
(* compilation that ended without a throw.                                  *)

\* Statements of the compiled function f with n parameters: v is declared
\* by no parameter, a is the first parameter.
UnitStatements(n) ==
    { Var("v", Number(1)),
      Assign("v", Number(2)),
      Return(Id("v")),
      If(Number(1), Return(Number(1)), Return(Number(2))) }
    \cup
    (IF n >= 1 THEN { Assign("a", Number(3)), Return(Equal(Id("a"), Number(1))) } ELSE {})

\* A function after f of more parameters than visitFunction accepts.
WideFunction ==
    Function("g", SubSeq(ParameterNames, 1, MaxParameters + 1), Block(<<>>))
\* A function that assigns to a name it does not declare.
UndeclaredFunction == Function("g", <<>>, Block(<<Assign("u", Number(1))>>))
\* A function without fault.
LoopFunction ==
    Function("g", <<>>, Block(<<While(Number(0), Block(<<>>)), Return(Number(7))>>))

\* The module of f alone, or of f and one more function before or after it.
Units(n, body) ==
    LET fn == Function("f", SubSeq(ParameterNames, 1, n), Block(body))
    IN  { New(Module(functions), 0) :
            functions \in { <<fn>>, <<LoopFunction, fn>>, <<fn, LoopFunction>>,
                            <<fn, WideFunction>>, <<fn, UndeclaredFunction>> } }

Variants == {"nameTable", "frameMap", "mlir"}

\* No analysis has returned.
NoFrames == [ok |-> FALSE, error |-> NoError, frames |-> EmptyMap]

\* new CodeGenerator(frameInfos) / new MlirCodegen(frameInfos)
NewGenerator(variant, frameInfos, labels, values) ==
    IF variant = "mlir" THEN NewMlirCodegen(frameInfos, labels, values)
    ELSE NewCodeGenerator(variant, frameInfos, labels)

\* node.visit(generator)
Visit(g, node) == IF g.variant = "mlir" THEN mlirVisit(g, node) ELSE genVisit(g, node)

InitUnit ==
    /\ FramesIdle
    /\ cmp = CmpIdle
    /\ parsing = ParseIdle
    /\ labelCounter = 0
    /\ \E variant \in Variants, n \in 0..MaxArity :
          \E body \in SeqsUpTo(UnitStatements(n), MaxUnitStmts) :
             \E unit \in Units(n, body) :
                asm = [pc |-> "parsed", variant |-> variant, unit |-> unit,
                       frames |-> NoFrames,
                       gen |-> NewGenerator(variant, EmptyMap, 0, 0),
                       outputs |-> <<>>, values |-> 0]

\* const frameInfos = analyzeFrames(ast); a throw ends main.
Analyze ==
    /\ asm.pc = "parsed"
    /\ asm.variant # "nameTable"
    /\ LET r == analyzeFrames(asm.unit)
       IN  asm' = [asm EXCEPT !.pc = IF r.ok THEN "analyzed" ELSE "failed",
                              !.frames = r,
                              !.gen.error = r.error]
    /\ UNCHANGED <<ast, results, labelCounter, cmp, parsing>>

\* Faulty variant of Visited: every generator numbers its labels and
\* values from 0.
VisitedFromZero(node, pc) ==
    LET g == Visit(NewGenerator(asm.variant, asm.frames.frames, 0, 0), node)
        done == g.error = NoError
    IN  /\ asm' = [asm EXCEPT !.pc = IF done THEN pc ELSE "failed",
                              !.gen = g,
                              !.values = IF asm.variant = "mlir" THEN g.values ELSE @,
                              !.outputs = IF done THEN Append(@, g.out) ELSE @]
        /\ labelCounter' = g.counter
        /\ UNCHANGED <<ast, results, cmp, parsing>>

\* The state after node.visit(new ...(frameInfos)) has returned or thrown.
Visited(node, pc) ==
    LET g == Visit(NewGenerator(asm.variant, asm.frames.frames, labelCounter, asm.values),
                   node)
        done == g.error = NoError
    IN  /\ asm' = [asm EXCEPT !.pc = IF done THEN pc ELSE "failed",
                              !.gen = g,
                              !.values = IF asm.variant = "mlir" THEN g.values ELSE @,
                              !.outputs = IF done THEN Append(@, g.out) ELSE @]
        /\ labelCounter' = g.counter
        /\ UNCHANGED <<ast, results, cmp, parsing>>

\* ast.visit(new CodeGenerator(...)): the module that was analysed.
Generate ==
    /\ asm.pc = IF asm.variant = "nameTable" THEN "parsed" ELSE "analyzed"
    /\ Visited(asm.unit, "done")

\* The frame map of one parse handed to a generator that visits another
\* parse of the same text: the same tree, every node another object.
GenerateReparsed ==
    /\ asm.pc = "analyzed"
    /\ asm.outputs = <<>>
    /\ Visited(New(asm.unit, Size(asm.unit)), "reparsed")

\* The process compiles the module once more.
CompileAgain ==
    /\ asm.pc = "done"
    /\ Len(asm.outputs) < MaxCompilations
    /\ asm' = [asm EXCEPT !.pc = "parsed", !.frames = NoFrames,
                          !.gen = NewGenerator(asm.variant, EmptyMap, labelCounter,
                                               asm.values)]
    /\ UNCHANGED <<ast, results, labelCounter, cmp, parsing>>

NextUnit == Analyze \/ Generate \/ GenerateReparsed \/ CompileAgain

SpecUnit == InitUnit /\ [][NextUnit]_vars

---------------------------------------------------------------------------
(* Claims about the compilation pipeline (SpecUnit).                        *)

\* The generator was built from a frame map (the pipeline with analyzeFrames).
Analysed == asm.variant \in {"frameMap", "mlir"}

\* C13: in the pipeline parse -> analyzeFrames -> generator, a compilation
\* has a line on the console only after its analyzeFrames has returned a
\* frame map for the whole module; a module in which some function uses a name that nothing
\* visited earlier in that function binds is never generated: the
\* compilation fails with 'Undefined variable' (or stays unanalysed) and
\* nothing was emitted.
C13_NothingEmittedBeforeAnalysis ==
    Analysed =>
      /\ asm.gen.out # <<>> => asm.frames.ok
      /\ UnboundNames(asm.unit, WalkOrder) # {} =>
           /\ asm.gen.out = <<>>
           /\ asm.outputs = <<>>
           /\ asm.pc \in {"parsed", "failed"}
           /\ asm.pc = "failed" => asm.gen.error.kind = "Undefined variable"

\* C13 witness: the compilation of a module whose second function uses an
\* undeclared name has failed, the first function being without fault.
C13_Witness ==
    /\ Analysed
    /\ asm.pc = "failed"
    /\ Len(asm.unit.kids) = 2
    /\ UnboundNames(Module(<<asm.unit.kids[1]>>), WalkOrder) = {}
    /\ UnboundNames(Module(<<asm.unit.kids[2]>>), WalkOrder) # {}

\* C14 (the claim as stated): a compilation that the assembly generator
\* (either variant) ends with a throw has put no line on the console,
\* neither the section header nor the code of the functions before the one
\* that failed.
C14_FailedGenerationEmitsNothing ==
    (asm.variant \in {"nameTable", "frameMap"} /\ asm.pc = "failed")
        => asm.gen.out = <<>>

\* An emitted line names, where an operand belongs, something that is not
\* one: #NaN in an assembly line, undefined in a memref line.
HasUndefinedOperand(line) ==
    IF asm.variant = "mlir"
    THEN /\ line.op \in {"memref.load", "memref.store", "memref.store.param"}
         /\ \E k \in DOMAIN line.operands : line.operands[k] = Undefined
    ELSE line.nan

\* C15 (the claim as stated): no generator ever emits, for an Id or Assign,
\* a line with an undefined or non-numeric operand (in a module without Var
\* every load and store of a slot belongs to an Id or Assign), and a
\* generator that visited an Id or Assign for which no slot (no local
\* offset) is resolved has thrown: a visit of nodes that the frame map does
\* not hold, or of a name that the name table does not hold, never returns
\* normally.
C15_UnresolvedSlotIsFatal ==
    /\ CountKind(asm.unit, "Var") = 0 =>
          \A i \in DOMAIN asm.gen.out : ~HasUndefinedOperand(asm.gen.out[i])
    /\ asm.pc = "reparsed" =>
          CountKind(asm.unit, "Id") + CountKind(asm.unit, "Assign") = 0
    /\ (asm.variant = "nameTable" /\ asm.pc = "done") =>
          UnboundNames(asm.unit, PreOrder) = {}

---------------------------------------------------------------------------
(* Claims about the frame of a function in the frame-map assembly           *)
(* generator (SpecUnit).  The stack of the emitted code is followed line by *)
(* line: addresses are byte offsets from the value of sp at function entry, *)
(* mem tells which register's entry value lies at an address.               *)

\* Index in out of the entry label of the function called name.
EntryIndex(out, name) ==
    CHOOSE i \in DOMAIN out : out[i].op = "entry" /\ out[i].a = name

\* The effect on [sp, fp, mem] of the pushes and pointer moves among the
\* lines out[i..j]:  stp a, b, [sp, #imm]!   str a, [sp, #imm]!
\*                   mov x29, sp             sub sp, sp, #imm
RECURSIVE Pushed(_, _, _, _)
Pushed(out, i, j, m) ==
    IF i > j THEN m
    ELSE LET l == out[i]
             to == m.sp + l.imm
             after ==
               CASE l.op = "stp!" ->
                      [m EXCEPT !.sp = to, !.mem = Put(Put(m.mem, to, l.a), to + 8, l.b)]
                 [] l.op = "str!" ->
                      [m EXCEPT !.sp = to, !.mem = Put(m.mem, to, l.a)]
                 [] l.op = "mov" /\ l.a = "x29" /\ l.b = "sp" -> [m EXCEPT !.fp = m.sp]
                 [] l.op = "sub#" /\ l.a = "sp" -> [m EXCEPT !.sp = m.sp - l.imm]
                 [] OTHER -> m
         IN  Pushed(out, i + 1, j, after)

\* The number of lines emitPrologue prints for fn.
PrologueLength(fn) ==
    Len(fmEmitPrologue([NewCodeGenerator("frameMap", asm.frames.frames, 0)
                           EXCEPT !.currentFrameInfo = asm.frames.frames[fn.name]],
                       fn).out)

\* The stack when the first instruction of the body of fn is reached.
AtBody(fn) ==
    LET entry == EntryIndex(asm.gen.out, fn.name)
    IN  Pushed(asm.gen.out, entry + 1, entry + PrologueLength(fn),
               [sp |-> 0, fp |-> 0, mem |-> EmptyMap])

\* A module has been compiled by the frame-map generator.
FrameMapDone == asm.variant = "frameMap" /\ asm.pc = "done"

\* C16 (the claim as stated): when the body of a function compiled by the
\* frame-map generator begins, the cell [x29, #-8*i], which the loads and
\* stores of slot i address, holds the incoming argument register x_i, for
\* every parameter i (counted from 0).
C16_ArgumentsSavedToSlots ==
    FrameMapDone =>
      \A f \in 1..Len(asm.unit.kids) :
        LET fn == asm.unit.kids[f]
            m == AtBody(fn)
        IN  \A i \in 0..(Len(fn.params) - 1) :
              /\ (m.fp - 8 * i) \in DOMAIN m.mem
              /\ m.mem[m.fp - 8 * i] = XReg(i)

---------------------------------------------------------------------------
(* The target machine, as far as the emitted assembly uses it: the          *)
(* registers, a memory of 8-byte cells, the operands of the last cmp.  A    *)
(* cell that was never written reads as unset (any value may lie there).    *)

\* Index in code of the line that defines label number n.
LabelIndex(code, n) ==
    CHOOSE i \in DOMAIN code : code[i].op = "label" /\ code[i].imm = n

Registers == {"x0", "x1", "x2", "x3", "x4", "x5", "x6", "x7", "x8", "x29", "x30", "sp"}

\* The machine when a function is entered with the given argument values:
\* the caller's sp, x29 and x30 are what the function has to hand back.
Caller == [sp |-> 4096, x29 |-> 8192, x30 |-> 12288]

\* What a callee that is not part of the module returns: g is called with
\* one argument, h with two or more (of which it reads the first two).
CalleeResult(name, arguments) ==
    IF name = "g" THEN 100 + 3 * arguments[1]
    ELSE 100 + 3 * arguments[1] + arguments[2]

\* Quotient rounded towards zero (sdiv, arith.divsi).
Quotient(x, y) ==
    LET abs(n) == IF n < 0 THEN -n ELSE n
        q == abs(x) \div abs(y)
    IN  IF (x < 0) = (y < 0) THEN q ELSE -q

Entered(arguments, unset) ==
    [pc |-> 1, halted |-> FALSE, fault |-> FALSE,
     left |-> 0, right |-> 0, unset |-> unset,
     mem |-> EmptyMap,
     regs |-> [r \in Registers |->
                 CASE r = "sp" -> Caller.sp
                   [] r = "x29" -> Caller.x29
                   [] r = "x30" -> Caller.x30
                   [] OTHER -> LET k == CHOOSE i \in 0..8 : XReg(i) = r
                               IN  IF k < Len(arguments) THEN arguments[k + 1] ELSE 0]]

ReadCell(s, address) == IF address \in DOMAIN s.mem THEN s.mem[address] ELSE s.unset

\* One instruction.
Execute(code, s) ==
    LET l == code[s.pc]
        r == s.regs
        next == [s EXCEPT !.pc = s.pc + 1]
        set(reg, v) == [next EXCEPT !.regs[reg] = v]
    IN  CASE l.op = "ldr=" -> set(l.a, l.imm)
          [] l.op = "mov#" -> set(l.a, l.imm)
          [] l.op = "mov"  -> set(l.a, r[l.b])
          [] l.op = "ldr"  -> set(l.a, ReadCell(s, r[l.b] + l.imm))
          [] l.op = "str"  -> [next EXCEPT !.mem = Put(s.mem, r[l.b] + l.imm, r[l.a])]
          [] l.op = "str!" -> [next EXCEPT !.mem = Put(s.mem, r[l.b] + l.imm, r[l.a]),
                                           !.regs[l.b] = r[l.b] + l.imm]
          [] l.op = "ldr+" -> [next EXCEPT !.regs =
                                 [[r EXCEPT ![l.a] = ReadCell(s, r[l.b])]
                                     EXCEPT ![l.b] = r[l.b] + l.imm]]
          [] l.op = "stp!" -> [next EXCEPT !.mem = Put(Put(s.mem, r[l.c] + l.imm, r[l.a]),
                                                       r[l.c] + l.imm + 8, r[l.b]),
                                           !.regs[l.c] = r[l.c] + l.imm]
          [] l.op = "ldp+" -> [next EXCEPT !.regs =
                                 [[[r EXCEPT ![l.a] = ReadCell(s, r[l.c])]
                                      EXCEPT ![l.b] = ReadCell(s, r[l.c] + 8)]
                                      EXCEPT ![l.c] = r[l.c] + l.imm]]
          [] l.op = "cmp#" -> [next EXCEPT !.left = r[l.a], !.right = l.imm]
          [] l.op = "cmp"  -> [next EXCEPT !.left = r[l.a], !.right = r[l.b]]
          [] l.op = "cset" -> set(l.a, IF (l.b = "eq") = (s.left = s.right) THEN 1 ELSE 0)
          [] l.op = "add"  -> set(l.a, r[l.b] + r[l.c])
          [] l.op = "sub"  -> set(l.a, r[l.b] - r[l.c])
          [] l.op = "mul"  -> set(l.a, r[l.b] * r[l.c])
          [] l.op = "sub#" -> set(l.a, r[l.b] - l.imm)
          [] l.op = "b"    -> [s EXCEPT !.pc = LabelIndex(code, l.imm)]
          [] l.op = "bne"  -> IF s.left # s.right
                              THEN [s EXCEPT !.pc = LabelIndex(code, l.imm)] ELSE next
          [] l.op = "ret"  -> [s EXCEPT !.halted = TRUE]
          \* bl: x30 is the return address; the callee returns in x0, hands
          \* back sp, x29 and the memory at and above sp, and may change x1..x8
          [] l.op = "bl"   -> [next EXCEPT !.regs =
                                 [reg \in Registers |->
                                    CASE reg = "x0" -> CalleeResult(l.a, <<r["x0"], r["x1"]>>)
                                      [] reg \in {"sp", "x29"} -> r[reg]
                                      [] reg = "x30" -> s.pc + 1
                                      [] OTHER -> s.unset]]
          \* div is no instruction of the machine (sdiv and udiv are)
          [] l.op = "div"  -> [s EXCEPT !.halted = TRUE, !.fault = TRUE]
          [] OTHER -> next

\* The machine after at most fuel instructions, or at ret.
RECURSIVE Executed(_, _, _)
Executed(code, s, fuel) ==
    IF s.halted \/ fuel = 0 \/ s.pc > Len(code) THEN s
    ELSE Executed(code, Execute(code, s), fuel - 1)

\* The lines of the function called name: from its entry label to its ret.
FunctionCode(out, name) ==
    LET entry == EntryIndex(out, name)
        last == CHOOSE j \in entry..Len(out) :
                   out[j].op = "ret" /\ \A k \in entry..(j - 1) : out[k].op # "ret"
    IN  SubSeq(out, entry, last)

\* The machine at the ret of the emitted function fn, called with arguments.
Returned(fn, arguments, unset) ==
    LET code == FunctionCode(asm.gen.out, fn.name)
    IN  Executed(code, Entered(arguments, unset), 4 * Len(code))

(* What a function of the language computes, on the AST: the value of an    *)
(* expression and the effect of a statement on [env, returned, value].      *)

RECURSIVE ValueOf(_, _)
ValueOf(env, t) ==
    LET v(i) == ValueOf(env, t.kids[i])
    IN  CASE t.kind = "Number"   -> t.value
          [] t.kind = "Id"       -> env[t.name]
          [] t.kind = "Not"      -> IF v(1) = 1 THEN 0 ELSE 1
          [] t.kind = "Equal"    -> IF v(1) = v(2) THEN 1 ELSE 0
          [] t.kind = "NotEqual" -> IF v(1) # v(2) THEN 1 ELSE 0
          [] t.kind = "Add"      -> v(1) + v(2)
          [] t.kind = "Subtract" -> v(1) - v(2)
          [] t.kind = "Multiply" -> v(1) * v(2)
          [] t.kind = "Divide"   -> Quotient(v(1), v(2))
          [] t.kind = "Call"     ->
               CalleeResult(t.name, [i \in 1..Len(t.kids) |-> ValueOf(env, t.kids[i])])

RECURSIVE Performed(_, _, _)
RECURSIVE PerformedAll(_, _, _, _)

PerformedAll(e, nodes, i, fuel) ==
    IF i > Len(nodes) \/ e.returned THEN e
    ELSE PerformedAll(Performed(e, nodes[i], fuel), nodes, i + 1, fuel)

Performed(e, t, fuel) ==
    IF e.returned \/ fuel = 0 THEN e
    ELSE CASE t.kind = "Return" ->
                [e EXCEPT !.returned = TRUE, !.value = ValueOf(e.env, t.kids[1])]
           [] t.kind \in {"Var", "Assign"} ->
                [e EXCEPT !.env = Put(e.env, t.name, ValueOf(e.env, t.kids[1]))]
           [] t.kind = "Block" -> PerformedAll(e, t.kids, 1, fuel)
           [] t.kind = "If" ->
                IF ValueOf(e.env, t.kids[1]) = 1 THEN Performed(e, t.kids[2], fuel)
                ELSE Performed(e, t.kids[3], fuel)
           [] t.kind = "While" ->
                IF ValueOf(e.env, t.kids[1]) = 1
                THEN Performed(Performed(e, t.kids[2], fuel), t, fuel - 1)
                ELSE e
           [] OTHER -> e

\* The value a call of fn with the given arguments returns: that of the
\* Return it executes, 0 when it executes none.
ResultOf(fn, arguments) ==
    Performed([env |-> [p \in {fn.params[i] : i \in DOMAIN fn.params} |->
                          arguments[ParamIndex(fn.params, p)]],
               returned |-> FALSE, value |-> 0],
              fn.kids[1], 8).value

\* Argument values of the calls that are followed.
ArgumentValues == <<1, 5, 6, 7, 8>>

\* C17 (the claim as stated): a function emitted by the frame-map generator,
\* called with any arguments, reaches its ret with sp, x29 and x30 at their
\* values at entry; no store of the body writes to the cells [x29] and
\* [x29, #8] that hold the saved pair; and x0 then holds the value of the
\* Return that was executed, 0 if none was.
C17_EpilogueRestoresCaller ==
    FrameMapDone =>
      \A f \in 1..Len(asm.unit.kids) : \A unset \in {0, 1} :
        LET fn == asm.unit.kids[f]
            arguments == SubSeq(ArgumentValues, 1, Len(fn.params))
            code == FunctionCode(asm.gen.out, fn.name)
            s == Returned(fn, arguments, unset)
        IN  /\ s.halted
            /\ s.regs["sp"] = Caller.sp
            /\ s.regs["x29"] = Caller.x29
            /\ s.regs["x30"] = Caller.x30
            /\ \A i \in DOMAIN code :
                  (code[i].op = "str" /\ code[i].b = "x29") => code[i].imm \notin {0, 8}
            /\ s.regs["x0"] = ResultOf(fn, arguments)

---------------------------------------------------------------------------
(* Claims about the emitted control flow (SpecUnit).                        *)

\* Index in out of the first line of the function called name: its entry
\* label (assembly) or its func.func line (MlirCodegen).
FirstLine(out, name) ==
    IF asm.variant = "mlir"
    THEN CHOOSE i \in DOMAIN out : out[i].op = "func.func" /\ out[i].text = name
    ELSE EntryIndex(out, name)

\* The lines emitted for the f-th function of the compiled module: from its
\* first line to the line before the next function's, or to the end.
Emitted(f) ==
    LET out == asm.gen.out
        from == FirstLine(out, asm.unit.kids[f].name)
    IN  IF f < Len(asm.unit.kids)
        THEN SubSeq(out, from, FirstLine(out, asm.unit.kids[f + 1].name) - 1)
        ELSE SubSeq(out, from, Len(out))

\* The lines of code whose op is op.
LinesOf(code, op) == {i \in DOMAIN code : code[i].op = op}

\* A module has been compiled without a throw.
Done == asm.pc = "done"

\* The assembly of a function has one exit: one ret, reached through the
\* epilogue that follows the one exit label, and as many branches to that
\* label as the function has Return nodes.
SingleExit(fn, code) ==
    /\ Cardinality(LinesOf(code, "ret")) = 1
    /\ LET ret == CHOOSE i \in LinesOf(code, "ret") : TRUE
       IN  /\ ret > 3
           /\ code[ret - 3].op = "label"
           /\ code[ret - 2] = Line("mov", "sp", "x29", "", 0)
           /\ code[ret - 1] = Line("ldp+", "x29", "x30", "sp", 16)
           /\ Cardinality({i \in LinesOf(code, "label") : code[i].imm = code[ret - 3].imm}) = 1
           /\ Cardinality({i \in LinesOf(code, "b") : code[i].imm = code[ret - 3].imm})
                 = CountKind(fn, "Return")

C19_SecondCompilationIsIdentical ==
    Len(asm.outputs) = 2 => asm.outputs[1] = asm.outputs[2]

---------------------------------------------------------------------------
(* The evaluation specification: the function f(a, b) { return E; } is      *)
(* compiled by both backends, the assembly generator of codegen.ts and      *)
(* MlirCodegen, for an expression E built from Equal, NotEqual and Not      *)
(* over a, b, 0 and 1; the emitted code is then followed on the given       *)
(* argument values.                                                         *)

Operands == { Id("a"), Id("b"), Number(0), Number(1) }

\* Comparisons and negations of operands, and the negations and comparisons
\* of those.
Booleans ==
    { Equal(l, r) : l, r \in Operands } \cup { NotEqual(l, r) : l, r \in Operands }
    \cup { Not(t) : t \in Operands }

Expressions ==
    Booleans \cup { Not(t) : t \in Booleans }
    \cup { Equal(Not(Id("a")), t) : t \in {Id("b"), Not(Id("b"))} }
    \cup { NotEqual(Equal(Id("a"), Id("b")), Not(Id("a"))) }

EvalUnit(expr) ==
    New(Module(<<Function("f", <<"a", "b">>, Block(<<Return(expr)>>))>>), 0)

InitEval ==
    /\ FramesIdle
    /\ cmp = CmpIdle
    /\ parsing = ParseIdle
    /\ labelCounter = 0
    /\ \E expr \in Expressions : \E x, y \in (-MaxValue)..MaxValue :
          asm = [pc |-> "eval", unit |-> EvalUnit(expr), arguments |-> <<x, y>>,
                 assembly |-> <<>>, ir |-> <<>>]

\* ast.visit(new CodeGenerator()) of codegen.ts
CompileAssembly ==
    /\ asm.pc = "eval"
    /\ asm.assembly = <<>>
    /\ LET g == genVisit(NewCodeGenerator("nameTable", EmptyMap, labelCounter), asm.unit)
       IN  /\ asm' = [asm EXCEPT !.assembly = g.out]
           /\ labelCounter' = g.counter
    /\ UNCHANGED <<ast, results, cmp, parsing>>

\* ast.visit(new MlirCodegen(analyzeFrames(ast)))
CompileIR ==
    /\ asm.pc = "eval"
    /\ asm.ir = <<>>
    /\ asm' = [asm EXCEPT !.ir =
                 mlirVisit(NewMlirCodegen(analyzeFrames(asm.unit).frames, 0, 0),
                           asm.unit).out]
    /\ UNCHANGED <<ast, results, labelCounter, cmp, parsing>>

NextEval == CompileAssembly \/ CompileIR

SpecEval == InitEval /\ [][NextEval]_vars

(* The operations of the IR, as far as the code of an expression uses them: *)
(* env holds the integer of each Value, cells the content of each memref.   *)

RECURSIVE Interpreted(_, _, _)
Interpreted(code, i, s) ==
    IF i > Len(code) \/ s.halted THEN s
    ELSE LET l == code[i]
             o == l.operands
             defined(v) == [s EXCEPT !.env = Put(s.env, l.result, v)]
             after ==
               CASE l.op = "arith.constant" -> defined(o[1])
                 [] l.op = "memref.store.param" ->
                      [s EXCEPT !.cells = Put(s.cells, o[1], s.arguments[l.text])]
                 [] l.op = "memref.store" ->
                      [s EXCEPT !.cells = Put(s.cells, o[2], s.env[o[1]])]
                 [] l.op = "memref.load" -> defined(s.cells[o[1]])
                 [] l.op = "arith.cmpi" ->
                      defined(IF (l.text = "eq") = (s.env[o[1]] = s.env[o[2]]) THEN 1 ELSE 0)
                 [] l.op = "arith.select" ->
                      defined(IF s.env[o[1]] = 1 THEN s.env[o[2]] ELSE s.env[o[3]])
                 [] l.op = "arith.addi" -> defined(s.env[o[1]] + s.env[o[2]])
                 [] l.op = "arith.subi" -> defined(s.env[o[1]] - s.env[o[2]])
                 [] l.op = "arith.muli" -> defined(s.env[o[1]] * s.env[o[2]])
                 [] l.op = "return" -> [s EXCEPT !.halted = TRUE, !.value = s.env[o[1]]]
                 [] OTHER -> s
         IN  Interpreted(code, i + 1, after)

---------------------------------------------------------------------------
(* Claims about the emitted comparisons and negations (SpecEval).           *)

Evaluated == asm.assembly # <<>> /\ asm.ir # <<>>

\* The expression E and the values of a and b.
Expr == asm.unit.kids[1].kids[1].kids[1].kids[1]
Env == [p \in {"a", "b"} |-> IF p = "a" THEN asm.arguments[1] ELSE asm.arguments[2]]

\* x0 at the ret of the assembly of f, called with the arguments.
AssemblyValue ==
    LET code == FunctionCode(asm.assembly, "f")
    IN  Executed(code, Entered(asm.arguments, 0), 4 * Len(code)).regs["x0"]

\* The operand of the first return that the IR of f reaches.
IRValue ==
    Interpreted(asm.ir, 1, [env |-> EmptyMap, cells |-> EmptyMap, arguments |-> Env,
                            halted |-> FALSE, value |-> Undefined]).value

\* C20: for all values of a and b, the code that either backend emits for
\* an Equal, NotEqual or Not leaves 0 or 1: Equal 1 iff its operands are
\* equal, NotEqual 1 iff they differ, Not 0 iff its operand is 1 and 1 for
\* every other operand; the same holds of every nested Equal, NotEqual and
\* Not, so the value left is that of the expression, and the two backends
\* leave the same value.
C20_ComparisonsYieldZeroOrOne ==
    Evaluated =>
      /\ AssemblyValue \in {0, 1}
      /\ IRValue \in {0, 1}
      /\ AssemblyValue = ValueOf(Env, Expr)
      /\ IRValue = ValueOf(Env, Expr)
      /\ AssemblyValue = IRValue

\* C20 witness: both backends have compiled a Not whose operand is neither
\* 0 nor 1.
C20_Witness ==
    /\ Evaluated
    /\ Expr.kind = "Not"
    /\ ValueOf(Env, Expr.kids[1]) \notin {0, 1}

---------------------------------------------------------------------------
(* The control-flow specification: the function f(a, b) is compiled by      *)
(* both backends (CompileAssembly, CompileIR) for bodies with If, While,    *)
(* Return, VarDecl, binary operators and calls, and the emitted code is     *)
(* followed on the given argument values.                                   *)

\* b = b + n;
Bump(n) == Assign("b", Add(Id("b"), Number(n)))

\* What a branch or a loop body does: return, change b, nothing, or return
\* before the end of its block.
Branches(n) ==
    { Return(Number(n)), Bump(n), Block(<<>>),
      Block(<<Return(Number(n)), Assign("b", Number(30))>>) }

\* Conditions of an If: their values lie in and outside {0, 1}.
IfConditions ==
    { Id("a"), Equal(Id("a"), Id("b")), Not(Id("a")), Add(Id("a"), Id("b")), Number(2) }

\* Conditions of a While whose body ends with a = 0: 0 after the body.
WhileConditions ==
    { Id("a"), Equal(Id("a"), Number(1)), Subtract(Id("a"), Number(1)), Number(2) }

\* Bodies without VarDecl.
FlowBodies ==
    { <<If(c, s, t), Return(Id("b"))>> :
        c \in IfConditions, s \in Branches(10), t \in Branches(20) }
    \cup
    { <<While(c, Block(<<s, Assign("a", Number(0))>>)), Return(Id("b"))>> :
        c \in WhileConditions, s \in Branches(10) }
    \cup
    \* a loop of two iterations
    { <<Assign("a", Number(0)),
        While(NotEqual(Id("a"), Number(2)),
              Block(<<s, Assign("a", Add(Id("a"), Number(1)))>>)),
        Return(Id("b"))>> : s \in Branches(10) }
    \cup
    \* nested
    { <<If(Id("a"),
           While(Id("b"), Block(<<If(Equal(Id("a"), Id("b")), Return(Number(10)), Bump(10)),
                                  Assign("b", Number(0))>>)),
           If(Id("b"), Return(Number(20)), Bump(20))),
        Return(Id("b"))>>,
      <<While(Id("a"), If(Id("b"), Return(Number(10)), Assign("a", Number(0)))),
        Return(Number(20))>> }

\* Bodies with VarDecl: at the top of the function, in a branch of an If,
\* in the body of a While.
VarBodies ==
    { <<Var("x", Number(1)), Var("y", Add(Id("x"), Id("a"))), Assign("x", Id("y")),
        Return(Id("x"))>>,
      <<If(Id("a"), Var("x", Number(1)), Block(<<>>)), Var("y", Number(2)),
        Return(Id("y"))>>,
      <<If(Id("a"), Block(<<>>), Var("x", Number(1))), Var("y", Number(2)),
        Return(Id("y"))>>,
      <<While(Id("a"), Block(<<Var("x", Number(5)), Assign("a", Number(0))>>)),
        Var("y", Number(2)), Return(Id("y"))>>,
      <<Assign("a", Number(0)),
        While(NotEqual(Id("a"), Number(2)),
              Block(<<Var("x", Id("a")), Assign("a", Add(Id("a"), Number(1)))>>)),
        Return(Id("x"))>> }

\* Bodies that return a binary operator: the right operand is a parameter,
\* a nested operator or a call.
OperatorBodies ==
    { <<Return(e)>> : e \in
        { Subtract(Id("a"), Id("b")),
          Subtract(Id("a"), Subtract(Id("b"), Number(1))),
          Subtract(Subtract(Id("a"), Id("b")), Number(1)),
          Multiply(Add(Id("a"), Number(1)), Subtract(Id("b"), Id("a"))),
          Subtract(Id("a"), Call("g", <<Id("b")>>)),
          Subtract(Call("g", <<Id("a")>>), Call("g", <<Id("b")>>)),
          Subtract(Id("a"), Call("h", <<Id("b"), Number(1)>>)),
          Subtract(Id("a"), Call("h", <<Number(1), Number(2), Number(3), Number(4),
                                        Number(5)>>)),
          Divide(Id("a"), Number(2)) } }

FlowUnit(body) == New(Module(<<Function("f", <<"a", "b">>, Block(body))>>), 0)

InitFlow ==
    /\ FramesIdle
    /\ cmp = CmpIdle
    /\ parsing = ParseIdle
    /\ labelCounter = 0
    /\ \E body \in FlowBodies \cup VarBodies \cup OperatorBodies :
       \E x, y \in (-MaxValue)..MaxValue :
          asm = [pc |-> "eval", unit |-> FlowUnit(body), arguments |-> <<x, y>>,
                 assembly |-> <<>>, ir |-> <<>>,
                 bodies |-> CASE body \in FlowBodies -> "flow"
                              [] body \in VarBodies -> "var"
                              [] OTHER -> "operator"]

NextFlow == CompileAssembly \/ CompileIR

SpecFlow == InitFlow /\ [][NextFlow]_vars

(* The IR with its control flow: pc is the index of the next line, env      *)
(* holds the integer of each Value, cells the content of each memref.       *)

\* Index in code of the line that starts the block of label n.
BlockIndex(code, n) ==
    CHOOSE i \in DOMAIN code : code[i].op = "label" /\ code[i].operands = <<n>>

\* One line.
Step(code, s) ==
    LET l == code[s.pc]
        o == l.operands
        next == [s EXCEPT !.pc = s.pc + 1]
        defined(v) == [next EXCEPT !.env = Put(s.env, l.result, v)]
        values == [i \in 1..Len(o) |-> s.env[o[i]]]
    IN  CASE l.op = "arith.constant" -> defined(o[1])
          [] l.op = "memref.store.param" ->
               [next EXCEPT !.cells = Put(s.cells, o[1], s.arguments[l.text])]
          [] l.op = "memref.store" -> [next EXCEPT !.cells = Put(s.cells, o[2], s.env[o[1]])]
          [] l.op = "memref.load" -> defined(s.cells[o[1]])
          [] l.op = "arith.cmpi" ->
               defined(IF (l.text = "eq") = (values[1] = values[2]) THEN 1 ELSE 0)
          [] l.op = "arith.select" -> defined(IF values[1] = 1 THEN values[2] ELSE values[3])
          [] l.op = "arith.addi" -> defined(values[1] + values[2])
          [] l.op = "arith.subi" -> defined(values[1] - values[2])
          [] l.op = "arith.muli" -> defined(values[1] * values[2])
          [] l.op = "arith.divsi" -> defined(Quotient(values[1], values[2]))
          [] l.op = "call" -> defined(CalleeResult(l.text, values))
          [] l.op = "cf.br" -> [s EXCEPT !.pc = BlockIndex(code, o[1])]
          \* cf.switch %c [ default: ^d, 1: ^one ]
          [] l.op = "cf.switch" ->
               [s EXCEPT !.pc = BlockIndex(code, IF values[1] = 1
                                                 THEN code[s.pc + 2].operands[2]
                                                 ELSE code[s.pc + 1].operands[1])]
          [] l.op = "return" -> [s EXCEPT !.halted = TRUE, !.value = values[1]]
          [] OTHER -> next

RECURSIVE Stepped(_, _, _)
Stepped(code, s, fuel) ==
    IF s.halted \/ fuel = 0 \/ s.pc > Len(code) THEN s
    ELSE Stepped(code, Step(code, s), fuel - 1)

---------------------------------------------------------------------------
(* Claims about the emitted control flow (SpecFlow).                        *)

\* The compiled function f and the statements of its body.
CompiledF == asm.unit.kids[1]

\* Instructions that are followed before a run is given up.
Fuel(code) == 8 * Len(code)

\* The machine at the ret of the assembly of f, called with the arguments.
AssemblyRun ==
    LET code == FunctionCode(asm.assembly, "f")
    IN  Executed(code, Entered(asm.arguments, 0), Fuel(code))

\* The IR of f at its return.
IRRun ==
    Stepped(asm.ir, [pc |-> 2, halted |-> FALSE, env |-> EmptyMap, cells |-> EmptyMap,
                     arguments |-> Env, value |-> Undefined],
            Fuel(asm.ir))

\* C21: for all values of the condition, the code of both backends runs
\* the consequence of an If iff the condition is 1 and the alternative for
\* every other value, and runs the body of a While iff the condition,
\* evaluated before every iteration, is 1: the function returns what its
\* statements return under that meaning, the same in both backends.
C21_BranchDecisionsAgree ==
    (Evaluated /\ asm.bodies = "flow") =>
      /\ AssemblyRun.halted /\ ~AssemblyRun.fault
      /\ IRRun.halted
      /\ AssemblyRun.regs["x0"] = ResultOf(CompiledF, asm.arguments)
      /\ IRRun.value = ResultOf(CompiledF, asm.arguments)

\* C21 witness: both backends have compiled a While whose condition is a
\* and whose body changes b, called with a = 1 (one iteration) or with an a
\* that is neither 0 nor 1 (no iteration).
C21_Witness ==
    /\ Evaluated
    /\ asm.bodies = "flow"
    /\ LET body == CompiledF.kids[1].kids
       IN  /\ body[1].kind = "While"
           /\ body[1].kids[1].kind = "Id"
           /\ body[1].kids[2].kids[1].kind = "Assign"
    /\ asm.arguments[1] = 2
    /\ IRRun.value = asm.arguments[2]

\* The machine when the assembly of f has run its first n lines' worth of
\* code: the lines from the entry up to, not including, line n + 1.
AssemblyAt(n) ==
    LET code == SubSeq(FunctionCode(asm.assembly, "f"), 1, n)
    IN  Executed(code, Entered(asm.arguments, 0), Fuel(code))

\* The number of lines up to the first line with the given op, not included.
Before(code, op) ==
    (CHOOSE i \in DOMAIN code : code[i].op = op /\ \A j \in 1..(i - 1) : code[j].op # op) - 1

\* The value of the returned operator under left-to-right evaluation.
OperatorValue == ValueOf(Env, CompiledF.kids[1].kids[1].kids[1])

\* C22 (the claim as stated): in both backends the code of a binary
\* operator leaves left op right, whatever the right operand is (a
\* parameter, a nested operator, a call with any arguments), Subtract
\* being left minus right and Divide left divided by right; in the
\* assembly the stack pointer after the operator is the stack pointer
\* before it.
C22_LeftOperandSurvives ==
    (Evaluated /\ asm.bodies = "operator") =>
      LET code == FunctionCode(asm.assembly, "f")
          after == AssemblyAt(Before(code, "b"))
      IN  /\ ~after.fault
          /\ after.regs["sp"] = AssemblyAt(Before(code, "stp!") + 4).regs["sp"]
          /\ after.regs["x0"] = OperatorValue
          /\ IRRun.halted
          /\ IRRun.value = OperatorValue

---------------------------------------------------------------------------
(* Claims about the frame that the prologue reserves (SpecUnit).            *)

\* Bytes by which the prologue of fn leaves sp below x29.
Lowered(fn) == AtBody(fn).fp - AtBody(fn).sp

\* C23: the prologue that the frame-map generator emits for a function of
\* 0 to 4 parameters lowers sp below x29 by 16 * ceil(frameSize / 2) bytes
\* in all: a multiple of 16 (sp stays aligned), at least 8 bytes per slot,
\* and the least such number.
C23_PrologueReservesFrame ==
    FrameMapDone =>
      \A f \in 1..Len(asm.unit.kids) :
        LET fn == asm.unit.kids[f]
            frameSize == asm.frames.frames[fn.name].frameSize
        IN  Len(fn.params) <= MaxParameters =>
              /\ Lowered(fn) % 16 = 0
              /\ Lowered(fn) >= 8 * frameSize
              /\ Lowered(fn) - 16 < 8 * frameSize

\* C23 witness: a function of three parameters and two locals was compiled:
\* five slots, 48 bytes, pushed as a pair and a single register.
C23_Witness ==
    /\ FrameMapDone
    /\ \E f \in 1..Len(asm.unit.kids) :
         LET fn == asm.unit.kids[f]
         IN  /\ Len(fn.params) = 3
             /\ asm.frames.frames[fn.name].frameSize = 5
             /\ Lowered(fn) = 48

---------------------------------------------------------------------------
(* Claims about the identifiers of labels and values (SpecUnit).            *)

\* Every line the process has printed: the compilations that returned, in
\* order, then the lines of one that threw.
Printed ==
    Flatten(asm.outputs) \o (IF asm.pc = "failed" THEN asm.gen.out ELSE <<>>)

\* The label that a line defines (".Ln:" or "^bbn:").
DefinesLabel(line) == line.op = "label"
LabelOf(line) == IF asm.variant = "mlir" THEN line.operands[1] ELSE line.imm

\* The Value that a line of IR defines.
DefinesValue(line) ==
    asm.variant = "mlir" /\ line.op # "label" /\ line.result # Undefined

\* C24: over the compilations of one process no two labels that a backend
\* emits have the same identifier, and likewise no two values; identifiers
\* are handed out in increasing order: those of a later compilation are
\* greater than those of an earlier one, the labels emitted are numbers
\* below Label.#counter (all of them, unless a compilation threw), and the
\* values appear in increasing order.
C24_IdentifiersAreUnique ==
    LET out == Printed
        labels == {i \in DOMAIN out : DefinesLabel(out[i])}
        values == {i \in DOMAIN out : DefinesValue(out[i])}
    IN  /\ \A i, j \in labels : i # j => LabelOf(out[i]) # LabelOf(out[j])
        /\ {LabelOf(out[i]) : i \in labels} \subseteq 0..(labelCounter - 1)
        /\ asm.pc \in {"done", "reparsed"} =>
             {LabelOf(out[i]) : i \in labels} = 0..(labelCounter - 1)
        /\ \A i, j \in values : i < j => out[i].result < out[j].result
        /\ \A k, m \in DOMAIN asm.outputs : k < m =>
             \A i \in DOMAIN asm.outputs[k], j \in DOMAIN asm.outputs[m] :
               /\ (DefinesLabel(asm.outputs[k][i]) /\ DefinesLabel(asm.outputs[m][j]))
                    => LabelOf(asm.outputs[k][i]) < LabelOf(asm.outputs[m][j])
               /\ (DefinesValue(asm.outputs[k][i]) /\ DefinesValue(asm.outputs[m][j]))
                    => asm.outputs[k][i].result < asm.outputs[m][j].result

\* C24 witness: a module with an If and a While has been compiled twice by
\* one process, and the second output defines labels.
C24_Witness ==
    /\ Len(asm.outputs) = 2
    /\ CountKind(asm.unit, "If") > 0
    /\ CountKind(asm.unit, "While") > 0
    /\ \E j \in DOMAIN asm.outputs[2] : DefinesLabel(asm.outputs[2][j])

---------------------------------------------------------------------------
(* Claims about the cells of the structured IR (SpecUnit).                  *)

\* The module has been compiled by MlirCodegen.
MlirDone == asm.variant = "mlir" /\ asm.pc = "done"

\* The lines of the function called name: from func.func to its "}".
FunctionIR(out, name) ==
    LET first == CHOOSE i \in DOMAIN out : out[i].op = "func.func" /\ out[i].text = name
        last == CHOOSE j \in first..Len(out) :
                   out[j].op = "}" /\ \A k \in first..(j - 1) : out[k].op # "}"
    IN  SubSeq(out, first, last)

\* The Identifier, VarDecl and Assign nodes below t in the order in which
\* their load or store is emitted: an Identifier when it is visited, a
\* VarDecl or Assign after its value.
RECURSIVE Accesses(_)
Accesses(t) ==
    LET below == Flatten([i \in 1..Len(t.kids) |-> Accesses(t.kids[i])])
    IN  CASE t.kind = "Id" -> <<t>>
          [] t.kind \in {"Var", "Assign"} -> below \o <<t>>
          [] OTHER -> below

\* The indices, in order, of the lines of code that an op of ops heads.
RECURSIVE IndicesOf(_, _, _)
IndicesOf(code, ops, i) ==
    IF i > Len(code) THEN <<>>
    ELSE (IF code[i].op \in ops THEN <<i>> ELSE <<>>) \o IndicesOf(code, ops, i + 1)

\* C25: the IR of every function starts, right after the func.func line,
\* with frameSize memref.alloca lines and no other, followed by one store
\* of parameter i into the i-th cell for every parameter; after these every
\* load of an Identifier and every store of a VarDecl or Assign addresses
\* the cell whose index is the slot analyzeFrames gave that node.
C25_CellsFollowFrameSlots ==
    MlirDone =>
      \A f \in 1..Len(asm.unit.kids) :
        LET fn == asm.unit.kids[f]
            code == FunctionIR(asm.gen.out, fn.name)
            frame == asm.frames.frames[fn.name]
            n == frame.frameSize
            cells == [i \in 1..n |-> code[1 + i].result]
            nodes == Accesses(fn)
            lines == IndicesOf(code, {"memref.load", "memref.store"}, 1)
        IN  /\ IndicesOf(code, {"memref.alloca"}, 1) = [i \in 1..n |-> 1 + i]
            /\ \A i, j \in 1..n : i # j => cells[i] # cells[j]
            /\ IndicesOf(code, {"memref.store.param"}, 1)
                 = [i \in 1..Len(fn.params) |-> 1 + n + i]
            /\ \A i \in 1..Len(fn.params) :
                 /\ code[1 + n + i].text = fn.params[i]
                 /\ code[1 + n + i].operands = <<cells[i]>>
            /\ Len(lines) = Len(nodes)
            /\ \A k \in 1..Len(nodes) :
                 LET line == code[lines[k]]
                     offset == getOffset(frame, nodes[k])
                 IN  /\ line.op = IF nodes[k].kind = "Id" THEN "memref.load"
                                  ELSE "memref.store"
                     /\ offset.defined
                     /\ line.operands[Len(line.operands)] = cells[offset.value + 1]

\* C25 witness: a function with two parameters or more and a VarDecl has
\* been compiled, and its body loads or stores a local and a parameter.
C25_Witness ==
    /\ MlirDone
    /\ \E f \in 1..Len(asm.unit.kids) :
         LET fn == asm.unit.kids[f]
         IN  /\ Len(fn.params) >= 2
             /\ CountKind(fn, "Var") > 0
             /\ \E k \in 1..Len(Accesses(fn)) : Accesses(fn)[k].name = "a"

---------------------------------------------------------------------------
(* The trivia specification: a parser is run to completion on a source      *)
(* written as a list of tokens, with whitespace or comments put into up to  *)
(* MaxTrivia of the gaps before its tokens (a statement has none before its *)
(* first token: the token before it has taken them); adjacent words are     *)
(* kept apart by a blank.  plain is the same source with nothing put in.    *)

\* What may be put into a gap: a blank, a newline, a line comment with its
\* newline, a block comment, a block comment that holds a star and a slash.
Trivia ==
    { <<" ">>, <<"\n">>, <<"/", "/", "c", "\n">>, <<"/", "*", "c", "*", "/">>,
      <<"/", "*", "/", "*", "*", "/">> }

\* The sources: the parser that is run and the tokens of the text.
\*   x = <expression> ;   with the expression starting with each kind of token
\*   statements that start with an identifier that no '=' follows
\*   function f(){return x;}
TriviaSources ==
    { [this |-> "statement", tokens |-> <<<<"x">>, <<"=">>>> \o e \o <<<<";">>>>] :
        e \in { <<<<"1">>>>, <<<<"y">>>>, <<<<"!">>, <<"y">>>>,
                <<<<"(">>, <<"y">>, <<")">>>>, <<<<"f">>, <<"(">>, <<")">>>>,
                <<<<"y">>, <<"=", "=">>, <<"1">>>> } }
    \cup
    { [this |-> "statement", tokens |-> <<<<"x">>>> \o e \o <<<<";">>>>] :
        e \in { <<>>, <<<<"=", "=">>, <<"1">>>>, <<<<"!", "=">>, <<"y">>>>,
                <<<<"+">>, <<"1">>>>, <<<<"(">>, <<"1">>, <<")">>>> } }
    \cup
    { [this |-> "parser",
       tokens |-> << <<"f", "u", "n", "c", "t", "i", "o", "n">>, <<"f">>, <<"(">>,
                     <<")">>, <<"{">>, <<"r", "e", "t", "u", "r", "n">>, <<"x">>, <<";">>,
                     <<"}">> >>] }

\* The text of the tokens from the i-th on, with gaps[j] put before token j
\* and a blank between two words that nothing else keeps apart.
RECURSIVE Written(_, _, _)
Written(tokens, gaps, i) ==
    IF i > Len(tokens) THEN <<>>
    ELSE LET blank == IF /\ i > 1
                         /\ gaps[i] = <<>>
                         /\ tokens[i - 1][Len(tokens[i - 1])] \in WordChars
                         /\ tokens[i][1] \in WordChars
                      THEN <<" ">> ELSE <<>>
         IN  blank \o gaps[i] \o tokens[i] \o Written(tokens, gaps, i + 1)

\* Trivia in at most n gaps of a source of k tokens.
RECURSIVE Gaps(_, _)
Gaps(k, n) ==
    IF n = 0 THEN { [i \in 1..k |-> <<>>] }
    ELSE { [g EXCEPT ![p] = t] : g \in Gaps(k, n - 1), p \in 1..k, t \in Trivia \cup {<<>>} }

InitTrivia ==
    /\ FramesIdle
    /\ asm = AsmIdle
    /\ labelCounter = 0
    /\ cmp = CmpIdle
    /\ \E source \in TriviaSources :
       \E gaps \in Gaps(Len(source.tokens), MaxTrivia) :
          \* a statement starts where the token before it left the index
          /\ source.this = "statement" => gaps[1] = <<>>
          /\ parsing = [this |-> source.this, pc |-> "start",
                     string |-> Written(source.tokens, gaps, 1),
                     plain |-> Written(source.tokens, [i \in 1..Len(source.tokens) |-> <<>>], 1),
                     tokens |-> source.tokens, gaps |-> gaps]

NextTrivia == ParseToCompletion

SpecTrivia == InitTrivia /\ [][NextTrivia]_vars

---------------------------------------------------------------------------
(* Claims about statements and trivia (SpecTrivia).                         *)

\* What the parser returns or throws on the source without trivia.
PlainOutcome == parseStringToCompletion(Named(parsing.this), parsing.plain)

\* The number of block comments put into the source.
BlockComments ==
    Cardinality({k \in DOMAIN parsing.gaps :
                   StartsWith(parsing.gaps[k], 0, <<"/", "*">>)})

\* The source is  x = <expression> ;
IsAssignment ==
    /\ parsing.this = "statement"
    /\ Len(parsing.tokens) >= 4
    /\ parsing.tokens[2] = <<"=">>

\* C26 (the claim as stated): a statement  identifier = expression ;  with
\* any or no whitespace or comments (here: at most one block comment)
\* between its tokens parses as
\* Assign(identifier, expression), whatever token the expression starts
\* with; a statement that starts with an identifier that no '=' follows
\* parses from the same position as an expression statement.
C26_AssignmentOrExpression ==
    (parsing.pc = "done" /\ parsing.this = "statement" /\ BlockComments <= 1) =>
      /\ ~parsing.outcome.thrown
      /\ IF IsAssignment
         THEN /\ parsing.outcome.value.kind = "Assign"
              /\ parsing.outcome.value.name = "x"
              /\ parsing.outcome.value.kids[1]
                   = parseStringToCompletion(
                        expression,
                        Flatten(SubSeq(parsing.tokens, 3, Len(parsing.tokens) - 1))).value
         ELSE parsing.outcome.value
                = parseStringToCompletion(
                     expression,
                     Flatten(SubSeq(parsing.tokens, 1, Len(parsing.tokens) - 1))).value

\* C27 (the claim as stated): trivia is invisible to the grammar.  For a
\* source that parses, whitespace, line comments and block comments put
\* before any of its tokens, in any number, leave the parsed tree unchanged;
\* a block comment ends at the first star-slash after its opening.
C27_TriviaIsInvisible ==
    (parsing.pc = "done" /\ ~PlainOutcome.thrown) =>
      /\ ~parsing.outcome.thrown
      /\ parsing.outcome.value = PlainOutcome.value

---------------------------------------------------------------------------
(* Claims about the blocks of the structured IR (SpecFlow).                 *)

\* The lines of f in the emitted IR.
FlowIR == FunctionIR(asm.ir, "f")

Terminators == {"cf.br", "cf.switch", "return"}

\* The lines that are not instructions: the head and the end of a function,
\* labels, and the three lines that continue a cf.switch.
Structure == {"func.func", "}", "label", "default", "case", "]"}

\* The index of the last line of the instruction that starts at line n.
LastLine(code, n) == IF code[n].op = "cf.switch" THEN n + 3 ELSE n

\* The Values an instruction uses.
Uses(line) ==
    IF line.op \in Structure \cup {"arith.constant", "cf.br", "memref.alloca"} THEN {}
    ELSE { line.operands[k] : k \in DOMAIN line.operands }

\* Line n lies in the block that starts right after line m: no label between.
SameBlock(code, m, n) == \A k \in (m + 1)..n : code[k].op # "label"

\* C28: once f is compiled to IR, every block of f (the entry block after
\* func.func and the block after every label) starts with an instruction and
\* ends with a terminator; the line after a terminator is a label or the end
\* of the function, so a block has exactly one terminator and nothing follows
\* it; every Value an instruction uses is defined by an earlier line of the
\* same block or of the entry block.
C28_BlocksAreWellFormed ==
    asm.ir # <<>> =>
      LET code == FlowIR
      IN  /\ \A n \in 1..(Len(code) - 1) :
                /\ code[n].op \in {"func.func", "label"} =>
                      code[n + 1].op \notin Structure
                /\ code[n].op \in Terminators =>
                      code[LastLine(code, n) + 1].op \in {"label", "}"}
                /\ code[n + 1].op \in {"label", "}"} =>
                      \E m \in 1..n : code[m].op \in Terminators /\ LastLine(code, m) = n
          /\ \A n \in 1..Len(code) : \A v \in Uses(code[n]) :
                \E m \in 1..(n - 1) :
                   /\ code[m].result = v
                   /\ v # Undefined
                   /\ SameBlock(code, m, n) \/ SameBlock(code, 1, m)

\* C28 witness: the IR of a body with a While whose body is a block that
\* returns before its last statement: a return is followed by a label, the
\* statement after it and the branch back to the start of the loop.
C28_Witness ==
    /\ asm.ir # <<>>
    /\ \E n \in 1..(Len(FlowIR) - 4) :
          /\ FlowIR[n].op = "return"
          /\ FlowIR[n + 1].op = "label"
          /\ FlowIR[n + 2].op = "arith.constant"
          /\ FlowIR[n + 3].op = "memref.store"
          /\ FlowIR[n + 4].op = "cf.br"
          /\ \E m \in 1..n : FlowIR[m].op = "label"
                             /\ FlowIR[m].operands = FlowIR[n + 4].operands

---------------------------------------------------------------------------
(* Claims about the locals of the name-table generator (SpecFlow).          *)

\* Line n of code, a 'str x0, [sp, #-16]!', is the push of a VarDecl and not
\* the spill of a binary operator: no 'ldr x1, [sp], #16' takes it back.
\* depth counts the spills that were met after line n and not yet taken back.
RECURSIVE Unpopped(_, _, _)
Unpopped(code, n, depth) ==
    IF n > Len(code) THEN TRUE
    ELSE CASE code[n].op = "str!" -> Unpopped(code, n + 1, depth + 1)
           [] code[n].op = "ldr+" -> IF depth = 0 THEN FALSE
                                     ELSE Unpopped(code, n + 1, depth - 1)
           [] OTHER -> Unpopped(code, n + 1, depth)

IsVarPush(code, n) == code[n].op = "str!" /\ Unpopped(code, n + 1, 0)

\* The offset that visitVar records for the push at line n: -48 for the
\* first VarDecl that is visited, 16 less for each further one.
RecordedOffset(code, n) ==
    -32 - 16 * Cardinality({m \in 1..n : IsVarPush(code, m)})

\* The code is followed from state s; pushed maps the offset recorded for a
\* VarDecl to the address at which its push last wrote.  The result is
\* FALSE when a load or store of a local uses another address than that, or
\* an address at which no VarDecl has pushed.
RECURSIVE LocalsAddressed(_, _, _, _)
LocalsAddressed(code, s, fuel, pushed) ==
    IF s.halted \/ fuel = 0 \/ s.pc > Len(code) THEN TRUE
    ELSE LET l == code[s.pc]
             after == Execute(code, s)
         IN  CASE IsVarPush(code, s.pc) ->
                    LocalsAddressed(code, after, fuel - 1,
                                    Put(pushed, RecordedOffset(code, s.pc),
                                        after.regs["sp"]))
               [] l.op \in {"ldr", "str"} /\ l.b = "x29" /\ l.imm <= -48 ->
                    /\ l.imm \in DOMAIN pushed
                    /\ pushed[l.imm] = s.regs["x29"] + l.imm
                    /\ LocalsAddressed(code, after, fuel - 1, pushed)
               [] OTHER -> LocalsAddressed(code, after, fuel - 1, pushed)

\* C29 (the claim as stated): in the code of the name-table generator, on
\* every execution path, a load of an Identifier or a store of an Assign
\* uses for a local the address at which the VarDecl of that local pushed
\* its value, also when the VarDecl lies in a branch of an If, in the body
\* of a While, or after such a statement; the function then returns what its
\* statements return.
C29_LocalsAreWherePushed ==
    (asm.assembly # <<>> /\ asm.bodies = "var") =>
      LET code == FunctionCode(asm.assembly, "f")
      IN  /\ LocalsAddressed(code, Entered(asm.arguments, 0), Fuel(code), EmptyMap)
          /\ AssemblyRun.regs["x0"] = ResultOf(CompiledF, asm.arguments)

---------------------------------------------------------------------------
(* The loop specification: a parser is run to completion on an input that   *)
(* makes one loop of zeroOrMore run up to MaxItems times: a text before the *)
(* loop, up to MaxItems items, a text after it, and then nothing or a text  *)
(* that makes the parse fail or stop early.                                 *)

LoopSources ==
    { \* ignored: whitespace and comments before the end of the input
      [this |-> "parser", before |-> <<>>, after |-> <<>>,
       items |-> {<<" ">>, <<"/", "/", "c", "\n">>, <<"/", "*", "c", "*", "/">>}],
      \* blockStatement: statements
      [this |-> "statement", before |-> <<"{">>, after |-> <<"}">>,
       items |-> {<<"x", ";">>, <<"x", "=", "1", ";">>, <<"{", "}">>}],
      \* parser: functions
      [this |-> "parser", before |-> <<>>, after |-> <<>>,
       items |-> {<<"f", "u", "n", "c", "t", "i", "o", "n", " ", "f", "(", ")", "{", "}">>}],
      \* args: arguments after the first
      [this |-> "expression", before |-> <<"f", "(", "1">>, after |-> <<")">>,
       items |-> {<<",", "x">>, <<",", " ", "1">>}],
      \* parameters: parameters after the first
      [this |-> "parser", before |-> <<"f", "u", "n", "c", "t", "i", "o", "n", " ", "f", "(", "x">>, after |-> <<")", "{", "}">>,
       items |-> {<<",", "y">>}],
      \* infix: operators and terms after the first term
      [this |-> "expression", before |-> <<"1">>, after |-> <<>>,
       items |-> {<<"+", "x">>, <<"*", "2">>, <<"=", "=", "1">>, <<"-", "(", "1", ")">>}] }

\* What follows the text: nothing, or a lexeme that nothing can follow.
LoopEnds == { <<>>, <<",">>, <<"+">>, <<"(">>, <<"/", "*">> }

InitLoops ==
    /\ FramesIdle
    /\ asm = AsmIdle
    /\ labelCounter = 0
    /\ cmp = CmpIdle
    /\ \E source \in LoopSources :
       \E items \in SeqsUpTo(source.items, MaxItems), end \in LoopEnds :
          parsing = [this |-> source.this, pc |-> "start",
                     string |-> source.before \o Flatten(items) \o source.after \o end]

NextLoops == ParseToCompletion

SpecLoops == InitLoops /\ [][NextLoops]_vars

---------------------------------------------------------------------------
(* Claims about the loops of the parser (SpecLoops).                        *)

\* The operator-term pair that infix hands to zeroOrMore.
OperatorTerm(operatorParser, termParser) ==
    bind(operatorParser, Callback("infix.operator", [termParser |-> termParser]))

\* The parser that ignored hands to zeroOrMore.
TriviaItem == or(whitespace, comments)

\* The other parsers that the grammar hands to zeroOrMore.
GrammarItems ==
    { statement, functionDecl, and(COMMA, expression), and(COMMA, ID),
      OperatorTerm(or(STAR, SLASH), unary), OperatorTerm(or(PLUS, MINUS), product),
      OperatorTerm(or(EQUAL, NOT_EQUAL), sum) }

\* Wherever in the input p succeeds, it leaves the index further on.
Advances(p) ==
    \A at \in 0..Len(parsing.string) :
       LET result == parse(p, Source(parsing.string, at))
       IN  result.ok => result.source.index > at

\* zeroOrMore(p) succeeds wherever it starts; its first value is what p
\* gives there and the rest what zeroOrMore(p) gives from where p ended;
\* where it ends p fails.
Collects(p) ==
    \A at \in 0..Len(parsing.string) :
       LET source == Source(parsing.string, at)
           all == parse(zeroOrMore(p), source)
           first == parse(p, source)
       IN  /\ all.ok
           /\ ~parse(p, all.source).ok
           /\ IF first.ok
              THEN /\ all.value # <<>>
                   /\ Head(all.value) = first.value
                   /\ Tail(all.value) = parse(zeroOrMore(p), first.source).value
                   /\ all.source = parse(zeroOrMore(p), first.source).source
              ELSE all.value = <<>> /\ all.source = source

\* C30: on every input, every parser that the grammar hands to zeroOrMore
\* (trivia, statement, functionDecl, the comma-separated arguments and
\* parameters, the operator-term pairs) leaves the index further on wherever
\* it succeeds, so that no loop of zeroOrMore runs without advancing;
\* zeroOrMore never fails and collects the values in the order of the input;
\* parseStringToCompletion ends: it returns (a Module, for parser) or throws
\* a parse error.
C30_LoopsAdvance ==
    /\ Advances(TriviaItem)
    /\ \A p \in GrammarItems : Advances(p)
    /\ \A p \in GrammarItems \cup {TriviaItem} : Collects(p)
    /\ parsing.pc = "done" =>
         IF parsing.outcome.thrown
         THEN /\ parsing.outcome.message = "Parse error at index"
              /\ parsing.outcome.index \in 0..Len(parsing.string)
         ELSE parsing.this = "parser" => parsing.outcome.value.kind = "Module"

\* C30 witness: parseStringToCompletion has returned on an input on which
\* the loop of a block's statements ran twice: it collected x; and then x=1;
C30_Witness ==
    /\ parsing.pc = "done"
    /\ ~parsing.outcome.thrown
    /\ LET all == parse(zeroOrMore(statement), Source(parsing.string, 1))
       IN  /\ Len(all.value) = 2
           /\ all.value[1].kind = "Id"
           /\ all.value[2].kind = "Assign"

===========================================================================
